---- MODULE Spec2Model ----
(***************************************************************************)
(* thread-uploader: the post store, the cron dispatcher (both cron routes  *)
(* and the standalone publisher script), the dashboard's manual upload and *)
(* the delete endpoints, as one state machine.                             *)
(*                                                                         *)
(* Time is counted in minutes.  A step of a handler is the code between    *)
(* two awaits: the store and the platform are the only shared state.       *)
(***************************************************************************)
EXTENDS Integers, Sequences, FiniteSets, TLC

VARIABLES
    posts,       \* the Post table: id -> row, for the rows that exist
    nextId,      \* number of rows ever created (ids are never reused)
    now,         \* wall clock
    inv,         \* dispatcher invocations: slot -> locals of one GET / main() run
    up,          \* the dashboard's handleUpload in flight
    viewPosted,  \* the dashboard's last fetch: ids it shows as isPosted
    platform,    \* Threads: per post, how many items were published and by whom
    uploads,     \* manual uploads started so far
    crashes,     \* process crashes so far
    orphaned,    \* posts whose invocation died between publish and status update
    settings,    \* the Settings row "default", or NoSettings
    env,         \* process.env: THREADS_ACCESS_TOKEN, THREADS_USER_ID and CRON_SECRET
    lib,         \* one call of the library's publishPost and the requests it has sent
    job,         \* the token-refresh job in flight
    call,        \* the last call of a parser, the validator or a route: input and answer
    script       \* one call of the standalone script's publishPost

vars == <<posts, nextId, now, inv, up, viewPosted, platform, uploads, crashes, orphaned,
          settings, env, lib, job, call, script>>

----------------------------------------------------------------------------
\* Bounds of the model.
MaxPosts == 2
MaxTime == 1
MaxUploads == 1
MaxCrashes == 1
MaxImages == 3

\* Program constants.
CronTake10 == 10
CronTake1 == 1
MainTake == 3
BufferMinutes == 1
SeedDays == 60
StaleDays == 7
MinutesPerDay == 1440

Slots == {"s1", "s2"}
Kinds == {"cron10", "cron1", "main"}
Ids == 1..MaxPosts
Times == 0..MaxTime

NoId == <<>>
NoLog == <<>>

\* The platform's error message of a failed call.
PlatformMsgs == {"rate limit"}

----------------------------------------------------------------------------
\* Helpers.
Min(a, b) == IF a <= b THEN a ELSE b

Range(s) == {s[k] : k \in DOMAIN s}

SelIds(s) == {s[k].id : k \in DOMAIN s}

\* A row as prisma.post.create writes it.
NewRow(at) == [status |-> "PENDING", scheduledAt |-> at, threadsId |-> NoId, errorLog |-> NoLog]

\* The id the platform returns for the n-th item published from post p.
ThreadsId(p, n) == <<p, n>>

Published(p) == platform[p].cron + platform[p].manual

\* Error messages: Error(`${prefix}${data.error?.message}`).
ContainerError(kind, m) ==
    IF kind = "main" THEN <<"Threads API Error (Text): ", m>>
                     ELSE <<"Threads API Error: ", m>>

PublishError(kind, m) ==
    IF kind = "main" THEN <<"Threads Publish Error: ", m>>
                     ELSE <<"Threads API Error: ", m>>

\* prisma.post.update on a row that no longer exists (P2025).
NotFoundError == <<"Prisma: ", "Record to update not found">>

----------------------------------------------------------------------------
\* Credentials: the Settings row and the environment.

NoSettings == <<>>

\* An environment variable that is not set.
Unset == ""

EnvConfigured ==
    [accessToken |-> "env-token", userId |-> "env-user", cronSecret |-> "cron-secret"]
EnvChoices == {EnvConfigured,
               [EnvConfigured EXCEPT !.accessToken = Unset],
               [EnvConfigured EXCEPT !.userId = Unset],
               [EnvConfigured EXCEPT !.accessToken = Unset, !.userId = Unset]}

Days(d) == d * MinutesPerDay

\* initializeTokensInDB: the row created when there is none.
SeededRow(t) ==
    [accessToken |-> env.accessToken, userId |-> env.userId, tokenExpiry |-> t + Days(SeedDays)]

InitError == <<"THREADS_ACCESS_TOKEN and THREADS_USER_ID must be set in environment variables">>

\* initializeTokensInDB: TRUE when it throws.
InitThrows == settings = NoSettings /\ (env.accessToken = Unset \/ env.userId = Unset)

\* initializeTokensInDB: the Settings table after a call that returns.
Initialized(t) == IF settings = NoSettings THEN SeededRow(t) ELSE settings

\* getAccessToken / getUserId: the row's value, else the environment's.
GetAccessToken == IF settings # NoSettings THEN settings.accessToken ELSE env.accessToken
GetUserId == IF settings # NoSettings THEN settings.userId ELSE env.userId

\* The error of the credential reads before a request, NoLog when they succeed.
\* The routes go through getAccessToken and getUserId, the script reads the row.
CredentialError(kind) ==
    CASE kind = "main" /\ settings = NoSettings -> <<"No Threads settings found in DB">>
      [] kind = "main" /\ settings # NoSettings -> NoLog
      [] kind # "main" /\ GetAccessToken = Unset -> <<"THREADS_ACCESS_TOKEN is not configured">>
      [] kind # "main" /\ GetAccessToken # Unset /\ GetUserId = Unset ->
             <<"THREADS_USER_ID is not configured">>
      [] OTHER -> NoLog

----------------------------------------------------------------------------
\* The dispatcher's selection query.

\* take: N
TakeUnlimited(kind) == MaxPosts + 10
Take(kind) ==
    CASE kind = "cron10" -> CronTake10
      [] kind = "cron1"  -> CronTake1
      [] kind = "main"   -> MainTake

\* where: { scheduledAt: { lte: ... } }
Within(kind, at, t) ==
    CASE kind = "cron10" -> at <= t
      [] kind = "cron1"  -> at <= t + BufferMinutes
      [] kind = "main"   -> TRUE

\* A query that leaves out PUBLISHED rows only.
MatchingUnpublished(kind, t) ==
    {p \in DOMAIN posts : posts[p].status # "PUBLISHED" /\ Within(kind, posts[p].scheduledAt, t)}

\* where: { status: "PENDING", scheduledAt: { lte } }
Matching(kind, t) ==
    {p \in DOMAIN posts : posts[p].status = "PENDING" /\ Within(kind, posts[p].scheduledAt, t)}

\* orderBy: { scheduledAt: "asc" }: rows with equal scheduledAt come in any order.
OrderedDesc(s) == \A j, k \in DOMAIN s : j < k => posts[s[j]].scheduledAt >= posts[s[k]].scheduledAt
Ordered(s) == \A j, k \in DOMAIN s : j < k => posts[s[j]].scheduledAt <= posts[s[k]].scheduledAt

\* The results findMany can return: the first Take rows of the ordered match.
FindMany(kind, t) ==
    LET m == Matching(kind, t)
        n == Min(Take(kind), Cardinality(m))
    IN  {s \in [1..n -> m] :
            /\ \A j, k \in 1..n : j # k => s[j] # s[k]
            /\ Ordered(s)
            /\ \A q \in m \ Range(s) : \A k \in 1..n :
                   posts[s[k]].scheduledAt <= posts[q].scheduledAt}

Snapshot(s) == [k \in DOMAIN s |-> [id |-> s[k], scheduledAt |-> posts[s[k]].scheduledAt]]

----------------------------------------------------------------------------
Idle ==
    [pc |-> "idle", kind |-> "none", sel |-> <<>>, idx |-> 0, tid |-> NoId, err |-> NoLog,
     results |-> <<>>, issued |-> {}, raised |-> {}, recorded |-> {}, aborted |-> FALSE]

UpIdle == [pc |-> "idle", post |-> 0, tid |-> NoId, err |-> NoLog]

LibIdle == [pc |-> "idle", images |-> <<>>, itemIds |-> <<>>, containerId |-> NoId,
            calls |-> <<>>, response |-> <<>>, result |-> NoId, err |-> NoLog]

JobIdle == [pc |-> "idle", calls |-> 0, refreshed |-> FALSE, expiresIn |-> 0, err |-> NoLog]

\* No parser, validator or route has been called yet.
NoCall == [op |-> "none", arg |-> <<>>, done |-> FALSE, out |-> <<>>]

\* The tables and the handlers of a process that has just started.
InitStore ==
    /\ posts = <<>>
    /\ nextId = 0
    /\ now = 0
    /\ inv = [i \in Slots |-> Idle]
    /\ up = UpIdle
    /\ viewPosted = {}
    /\ platform = [p \in Ids |-> [cron |-> 0, manual |-> 0]]
    /\ uploads = 0
    /\ crashes = 0
    /\ orphaned = {}
    /\ lib = LibIdle
    /\ job = JobIdle
    /\ script = LibIdle
    /\ call = NoCall

\* A configured deployment, before or after its first initializeTokensInDB.
Init ==
    /\ InitStore
    /\ env = EnvConfigured
    /\ settings \in {NoSettings, SeededRow(0)}

\* A deployment whose environment may lack either variable; a row seeded
\* earlier stays when the variables are removed.
InitAnyEnv ==
    /\ InitStore
    /\ env \in EnvChoices
    /\ settings \in {NoSettings,
                     [accessToken |-> EnvConfigured.accessToken, userId |-> EnvConfigured.userId,
                      tokenExpiry |-> Days(SeedDays)]}

\* The post the loop of invocation i is at.
Cur(i) == inv[i].sel[inv[i].idx].id

----------------------------------------------------------------------------
\* POST /api/posts: one row, scheduledAt given by the caller or assigned.
Ingest ==
    /\ nextId < MaxPosts
    /\ \E at \in Times :
          posts' = (nextId + 1 :> NewRow(at)) @@ posts
    /\ nextId' = nextId + 1
    /\ UNCHANGED <<now, inv, up, viewPosted, platform, uploads, crashes, orphaned,
                   settings, env, lib, job, call, script>>

Tick ==
    /\ now < MaxTime
    /\ now' = now + 1
    /\ UNCHANGED <<posts, nextId, inv, up, viewPosted, platform, uploads, crashes, orphaned,
                   settings, env, lib, job, call, script>>

----------------------------------------------------------------------------
\* The dispatcher: GET /api/cron/publish (two versions) and main().

\* The locals of an invocation whose findMany gave s: the early return, or the
\* first iteration.
Selected(kind, s) ==
    [Idle EXCEPT !.kind = kind,
                 !.sel = Snapshot(s),
                 !.idx = IF Len(s) = 0 THEN 0 ELSE 1,
                 !.pc = IF Len(s) = 0 THEN "done" ELSE "container"]

\* A trigger on a slot whose last invocation has answered: findMany, then the
\* early return or the first iteration.
Start(i, kind) ==
    /\ inv[i].pc \in {"idle", "done"}
    /\ \E s \in FindMany(kind, now) : inv' = [inv EXCEPT ![i] = Selected(kind, s)]
    /\ UNCHANGED <<posts, nextId, now, up, viewPosted, platform, uploads, crashes, orphaned,
                   settings, env, lib, job, call, script>>

\* publishPost, before its first request: the credential reads throw.
NoCredentials(i) ==
    /\ inv[i].pc = "container"
    /\ CredentialError(inv[i].kind) # NoLog
    /\ inv' = [inv EXCEPT ![i].pc = "catch",
                          ![i].err = CredentialError(inv[i].kind),
                          ![i].raised = @ \cup {Cur(i)}]
    /\ UNCHANGED <<posts, nextId, now, up, viewPosted, platform, uploads, crashes, orphaned,
                   settings, env, lib, job, call, script>>

\* publishPost, first half: the container-create call.
CreateContainer(i) ==
    /\ inv[i].pc = "container"
    /\ CredentialError(inv[i].kind) = NoLog
    /\ \/ inv' = [inv EXCEPT ![i].pc = "publish",
                             ![i].issued = @ \cup {Cur(i)}]
       \/ \E m \in PlatformMsgs :
             inv' = [inv EXCEPT ![i].pc = "catch",
                                ![i].err = ContainerError(inv[i].kind, m),
                                ![i].raised = @ \cup {Cur(i)},
                                ![i].issued = @ \cup {Cur(i)}]
    /\ UNCHANGED <<posts, nextId, now, up, viewPosted, platform, uploads, crashes, orphaned,
                   settings, env, lib, job, call, script>>

\* A loop that does not await the status update before the next post.
PublishContainerNoAwait(i) ==
    /\ inv[i].pc = "publish"
    /\ \/ /\ platform' = [platform EXCEPT ![Cur(i)].cron = @ + 1]
          /\ inv' = [inv EXCEPT ![i].pc = IF inv[i].idx < Len(inv[i].sel) THEN "container" ELSE "done",
                                ![i].idx = IF inv[i].idx < Len(inv[i].sel) THEN @ + 1 ELSE @]
       \/ /\ \E m \in PlatformMsgs :
                inv' = [inv EXCEPT ![i].pc = "catch",
                                   ![i].raised = @ \cup {Cur(i)},
                                   ![i].err = PublishError(inv[i].kind, m)]
          /\ UNCHANGED platform
    /\ UNCHANGED <<posts, nextId, now, up, viewPosted, uploads, crashes, orphaned,
                   settings, env, lib, job, call, script>>

\* publishPost, second half: the threads_publish call, after the wait.
PublishContainer(i) ==
    /\ inv[i].pc = "publish"
    /\ \/ /\ platform' = [platform EXCEPT ![Cur(i)].cron = @ + 1]
          /\ inv' = [inv EXCEPT ![i].pc = "update",
                                ![i].tid = ThreadsId(Cur(i), Published(Cur(i)) + 1)]
       \/ /\ \E m \in PlatformMsgs :
                inv' = [inv EXCEPT ![i].pc = "catch",
                                   ![i].raised = @ \cup {Cur(i)},
                                   ![i].err = PublishError(inv[i].kind, m)]
          /\ UNCHANGED platform
    /\ UNCHANGED <<posts, nextId, now, up, viewPosted, uploads, crashes, orphaned,
                   settings, env, lib, job, call, script>>

\* The end of one iteration: the next post, or the response.
NextPc(i) == IF inv[i].idx < Len(inv[i].sel) THEN "container" ELSE "done"
NextIdx(i) == IF inv[i].idx < Len(inv[i].sel) THEN inv[i].idx + 1 ELSE inv[i].idx

\* prisma.post.update({ status: "PUBLISHED", threadsId }) and results.push.
UpdatePublished(i) ==
    /\ inv[i].pc = "update"
    /\ \/ /\ Cur(i) \in DOMAIN posts
          /\ posts' = [posts EXCEPT ![Cur(i)].status = "PUBLISHED",
                                    ![Cur(i)].threadsId = inv[i].tid]
          /\ inv' = [inv EXCEPT ![i].pc = NextPc(i),
                                ![i].idx = NextIdx(i),
                                ![i].tid = NoId,
                                ![i].recorded = @ \cup {Cur(i)},
                                ![i].results = Append(@, [id |-> Cur(i), success |-> TRUE,
                                                          threadsId |-> inv[i].tid, error |-> NoLog])]
       \/ /\ Cur(i) \notin DOMAIN posts
          /\ inv' = [inv EXCEPT ![i].pc = "catch", ![i].tid = NoId, ![i].err = NotFoundError]
          /\ UNCHANGED posts
    /\ UNCHANGED <<nextId, now, up, viewPosted, platform, uploads, crashes, orphaned,
                   settings, env, lib, job, call, script>>

\* A catch block that pushes the result and leaves the row alone.
UpdateFailedUnrecorded(i) ==
    /\ inv[i].pc = "catch"
    /\ inv' = [inv EXCEPT ![i].pc = NextPc(i),
                          ![i].idx = NextIdx(i),
                          ![i].err = NoLog,
                          ![i].results = Append(@, [id |-> Cur(i), success |-> FALSE,
                                                    threadsId |-> NoId, error |-> inv[i].err])]
    /\ UNCHANGED <<posts, nextId, now, up, viewPosted, platform, uploads, crashes, orphaned,
                   settings, env, lib, job, call, script>>

\* A catch block that marks the row PUBLISHED.
UpdateFailedAsPublished(i) ==
    /\ inv[i].pc = "catch"
    /\ Cur(i) \in DOMAIN posts
    /\ posts' = [posts EXCEPT ![Cur(i)].status = "PUBLISHED"]
    /\ inv' = [inv EXCEPT ![i].pc = NextPc(i),
                          ![i].idx = NextIdx(i),
                          ![i].err = NoLog,
                          ![i].recorded = @ \cup {Cur(i)},
                          ![i].results = Append(@, [id |-> Cur(i), success |-> FALSE,
                                                    threadsId |-> NoId, error |-> inv[i].err])]
    /\ UNCHANGED <<nextId, now, up, viewPosted, platform, uploads, crashes, orphaned,
                   settings, env, lib, job, call, script>>

\* catch: prisma.post.update({ status: "FAILED", errorLog }) and results.push;
\* when that update throws, the outer catch ends the invocation.
UpdateFailed(i) ==
    /\ inv[i].pc = "catch"
    /\ \/ /\ Cur(i) \in DOMAIN posts
          /\ posts' = [posts EXCEPT ![Cur(i)].status = "FAILED",
                                    ![Cur(i)].errorLog = inv[i].err]
          /\ inv' = [inv EXCEPT ![i].pc = NextPc(i),
                                ![i].idx = NextIdx(i),
                                ![i].err = NoLog,
                                ![i].recorded = @ \cup {Cur(i)},
                                ![i].results = Append(@, [id |-> Cur(i), success |-> FALSE,
                                                          threadsId |-> NoId, error |-> inv[i].err])]
       \/ /\ Cur(i) \notin DOMAIN posts
          /\ inv' = [inv EXCEPT ![i].pc = "done", ![i].err = NoLog, ![i].aborted = TRUE]
          /\ UNCHANGED posts
    /\ UNCHANGED <<nextId, now, up, viewPosted, platform, uploads, crashes, orphaned,
                   settings, env, lib, job, call, script>>

\* The process dies in the middle of an invocation.
Crash(i) ==
    /\ inv[i].pc \in {"container", "publish", "update", "catch"}
    /\ crashes < MaxCrashes
    /\ crashes' = crashes + 1
    /\ orphaned' = IF inv[i].pc = "update" THEN orphaned \cup {Cur(i)} ELSE orphaned
    /\ inv' = [inv EXCEPT ![i] = Idle]
    /\ UNCHANGED <<posts, nextId, now, up, viewPosted, platform, uploads, settings, env, lib, job,
                   call, script>>

----------------------------------------------------------------------------
\* The dashboard.

\* fetchPosts: GET /api/posts, then isPosted = (status === "PUBLISHED").
FetchPosts ==
    /\ viewPosted' = {p \in DOMAIN posts : posts[p].status = "PUBLISHED"}
    /\ UNCHANGED <<posts, nextId, now, inv, up, platform, uploads, crashes, orphaned,
                   settings, env, lib, job, call, script>>

\* handleUpload: the button is disabled while isUploading or when isPosted.
StartUpload(p) ==
    /\ up.pc = "idle"
    /\ uploads < MaxUploads
    /\ p \in DOMAIN posts
    /\ p \notin viewPosted
    /\ up' = [UpIdle EXCEPT !.pc = "init", !.post = p]
    /\ uploads' = uploads + 1
    /\ UNCHANGED <<posts, nextId, now, inv, viewPosted, platform, crashes, orphaned,
                   settings, env, lib, job, call, script>>

\* POST /api/posts/upload: initializeTokensInDB; when it throws the route
\* answers 500 with the message.
UploadInit ==
    /\ up.pc = "init"
    /\ IF InitThrows
       THEN up' = [up EXCEPT !.pc = "patchFailed", !.err = InitError] /\ UNCHANGED settings
       ELSE up' = [up EXCEPT !.pc = "container"] /\ settings' = Initialized(now)
    /\ UNCHANGED <<posts, nextId, now, inv, viewPosted, platform, uploads, crashes, orphaned,
                   env, lib, job, call, script>>

\* POST /api/posts/upload: publishPost's container-create call.
UploadContainer ==
    /\ up.pc = "container"
    /\ \/ up' = [up EXCEPT !.pc = "publish"]
       \/ \E m \in PlatformMsgs :
             up' = [up EXCEPT !.pc = "patchFailed", !.err = ContainerError("upload", m)]
    /\ UNCHANGED <<posts, nextId, now, inv, viewPosted, platform, uploads, crashes, orphaned,
                   settings, env, lib, job, call, script>>

\* POST /api/posts/upload: publishPost's threads_publish call.
UploadPublish ==
    /\ up.pc = "publish"
    /\ \/ /\ platform' = [platform EXCEPT ![up.post].manual = @ + 1]
          /\ up' = [up EXCEPT !.pc = "patchPublished",
                              !.tid = ThreadsId(up.post, Published(up.post) + 1)]
       \/ /\ \E m \in PlatformMsgs :
                up' = [up EXCEPT !.pc = "patchFailed", !.err = PublishError("upload", m)]
          /\ UNCHANGED platform
    /\ UNCHANGED <<posts, nextId, now, inv, viewPosted, uploads, crashes, orphaned,
                   settings, env, lib, job, call, script>>

\* PATCH /api/posts/[id]: prisma.post.update({ where: { id }, data: body });
\* a missing row answers 500 and changes nothing.
Patch(id, body) ==
    IF id \in DOMAIN posts
    THEN [posts EXCEPT ![id] = [f \in DOMAIN posts[id] |->
                                   IF f \in DOMAIN body THEN body[f] ELSE posts[id][f]]]
    ELSE posts

\* handleUpload after a 200: PATCH { status: "PUBLISHED", threadsId }.
PatchPublished ==
    /\ up.pc = "patchPublished"
    /\ posts' = Patch(up.post, [status |-> "PUBLISHED", threadsId |-> up.tid])
    /\ up' = [up EXCEPT !.pc = "refresh", !.tid = NoId]
    /\ UNCHANGED <<nextId, now, inv, viewPosted, platform, uploads, crashes, orphaned,
                   settings, env, lib, job, call, script>>

\* handleUpload after the PATCH: onRefresh(), which is the dashboard's fetchPosts.
UploadRefresh ==
    /\ up.pc = "refresh"
    /\ viewPosted' = {p \in DOMAIN posts : posts[p].status = "PUBLISHED"}
    /\ up' = UpIdle
    /\ UNCHANGED <<posts, nextId, now, inv, platform, uploads, crashes, orphaned,
                   settings, env, lib, job, call, script>>

\* handleUpload's catch: PATCH { status: "FAILED", errorLog }.
PatchFailed ==
    /\ up.pc = "patchFailed"
    /\ posts' = Patch(up.post, [status |-> "FAILED", errorLog |-> up.err])
    /\ up' = UpIdle
    /\ UNCHANGED <<nextId, now, inv, viewPosted, platform, uploads, crashes, orphaned,
                   settings, env, lib, job, call, script>>

\* DELETE /api/posts/[id]
DeleteById(p) ==
    /\ p \in DOMAIN posts
    /\ posts' = [q \in DOMAIN posts \ {p} |-> posts[q]]
    /\ UNCHANGED <<nextId, now, inv, up, viewPosted, platform, uploads, crashes, orphaned,
                   settings, env, lib, job, call, script>>

\* DELETE /api/posts/reset: deleteMany({ where: { status: "PENDING" } })
Reset ==
    /\ posts' = [q \in {p \in DOMAIN posts : posts[p].status # "PENDING"} |-> posts[q]]
    /\ UNCHANGED <<nextId, now, inv, up, viewPosted, platform, uploads, crashes, orphaned,
                   settings, env, lib, job, call, script>>

----------------------------------------------------------------------------
Dispatch(i) ==
    \/ NoCredentials(i)
    \/ CreateContainer(i)
    \/ PublishContainer(i)
    \/ UpdatePublished(i)
    \/ UpdateFailed(i)

\* The store, the clock and the delete endpoints.
Store ==
    \/ Ingest
    \/ Tick
    \/ \E p \in Ids : DeleteById(p)
    \/ Reset

\* The cron trigger fires when the previous invocation has answered.
Next ==
    \/ Store
    \/ \E kind \in Kinds : Start("s1", kind)
    \/ \E i \in Slots : Dispatch(i)

Spec == Init /\ [][Next]_vars

\* The cron trigger also fires while the previous invocation is in progress.
NextOverlap ==
    \/ Store
    \/ \E i \in Slots, kind \in Kinds : Start(i, kind)
    \/ \E i \in Slots : Dispatch(i)

SpecOverlap == Init /\ [][NextOverlap]_vars

\* The process may die during an invocation.
NextCrash ==
    \/ Next
    \/ \E i \in Slots : Crash(i)

SpecCrash == Init /\ [][NextCrash]_vars

\* The cron trigger fires again and again, and an invocation that has begun
\* runs on to its answer.
SpecLive ==
    /\ Init
    /\ [][Next]_vars
    /\ WF_vars(\E kind \in Kinds : Start("s1", kind))
    /\ WF_vars(Dispatch("s1"))

\* The dispatcher and the dashboard's manual upload.
NextDash ==
    \/ Next
    \/ FetchPosts
    \/ \E p \in Ids : StartUpload(p)
    \/ UploadInit
    \/ UploadContainer
    \/ UploadPublish
    \/ PatchPublished
    \/ UploadRefresh
    \/ PatchFailed

SpecDash == Init /\ [][NextDash]_vars

\* The dispatcher on a deployment whose environment may lack the variables.
SpecUnconfigured == InitAnyEnv /\ [][Next]_vars

----------------------------------------------------------------------------
\* The library's publish protocol client, request by request.

Urls == {"u1", "u2"}

\* imageUrls: up to MaxImages urls.
ImageLists == UNION {[1..n -> Urls] : n \in 0..MaxImages}

NoMsg == ""

\* What the platform answers: 200 with an id, or a non-success status whose
\* body is the error object (with or without a message) or is not JSON.
Responses ==
    {[ok |-> TRUE, body |-> "json", message |-> NoMsg]}
        \cup {[ok |-> FALSE, body |-> "json", message |-> m] : m \in PlatformMsgs \cup {NoMsg}}
        \cup {[ok |-> FALSE, body |-> "text", message |-> NoMsg]}

\* The id in the answer to the n-th request of a run.
ResponseId(n) == <<"id", n>>

\* await response.json(), then if (!response.ok) throw new Error(`Threads API
\* Error: ${errorData.error?.message || "Unknown error"}`).
ResponseError(r) ==
    IF r.body # "json" THEN <<"SyntaxError: ", "Unexpected token in JSON">>
    ELSE <<"Threads API Error: ", IF r.message # NoMsg THEN r.message ELSE "Unknown error">>

\* itemIds.join(",")
JoinReversed(ids) ==
    [k \in 1..(IF Len(ids) = 0 THEN 0 ELSE 2 * Len(ids) - 1) |->
        IF k % 2 = 1 THEN ids[Len(ids) + 1 - (k + 1) \div 2] ELSE ","]
Join(ids) ==
    [k \in 1..(IF Len(ids) = 0 THEN 0 ELSE 2 * Len(ids) - 1) |->
        IF k % 2 = 1 THEN ids[(k + 1) \div 2] ELSE ","]

NoParam == <<>>

\* A request: POST /{user-id}/threads or /{user-id}/threads_publish with its
\* URLSearchParams, and whether the answer was a success.
Request(endpoint, media, url, item, children, creation, r) ==
    [endpoint |-> endpoint, media_type |-> media, image_url |-> url, is_carousel_item |-> item,
     children |-> children, creation_id |-> creation, ok |-> r.ok]

\* A client that sends the request again when the answer is a failure.
SentRetrying(q, r, okPc) ==
    IF r.ok THEN [lib EXCEPT !.calls = Append(@, q), !.response = r, !.pc = okPc]
            ELSE [lib EXCEPT !.calls = Append(@, q), !.response = r]

\* The state after a request and its answer: the log, and the throw on failure.
Sent(q, r, okPc) ==
    IF r.ok THEN [lib EXCEPT !.calls = Append(@, q), !.response = r, !.pc = okPc]
            ELSE [lib EXCEPT !.calls = Append(@, q), !.response = r,
                             !.pc = "thrown", !.err = ResponseError(r)]

\* A publishPost that sends every post with images through the carousel.
PublishPostAsCarousel(images) ==
    /\ lib.pc \in {"idle", "returned", "thrown"}
    /\ lib' = [LibIdle EXCEPT !.images = images,
                              !.pc = IF Len(images) = 0 THEN "text" ELSE "item"]
    /\ UNCHANGED <<posts, nextId, now, inv, up, viewPosted, platform, uploads, crashes, orphaned,
                   settings, env, job, call, script>>

\* publishPost(text, imageUrls): the branch on imageUrls.length.
PublishPost(images) ==
    /\ lib.pc \in {"idle", "returned", "thrown"}
    /\ lib' = [LibIdle EXCEPT !.images = images,
                              !.pc = CASE Len(images) = 0 -> "text"
                                       [] Len(images) = 1 -> "image"
                                       [] OTHER -> "item"]
    /\ UNCHANGED <<posts, nextId, now, inv, up, viewPosted, platform, uploads, crashes, orphaned,
                   settings, env, job, call, script>>

\* getAccessToken / getUserId throw before the request is built.
LibNoCredentials ==
    /\ lib.pc \in {"text", "image", "item", "carousel", "publish"}
    /\ CredentialError("lib") # NoLog
    /\ lib' = [lib EXCEPT !.pc = "thrown", !.err = CredentialError("lib")]
    /\ UNCHANGED <<posts, nextId, now, inv, up, viewPosted, platform, uploads, crashes, orphaned,
                   settings, env, job, call, script>>

CreateTextContainer ==
    /\ lib.pc = "text"
    /\ CredentialError("lib") = NoLog
    /\ \E r \in Responses :
          LET q == Request("threads", "TEXT", NoParam, FALSE, NoParam, NoParam, r)
          IN  lib' = [Sent(q, r, "wait") EXCEPT
                         !.containerId = IF r.ok THEN ResponseId(Len(lib.calls) + 1) ELSE @]
    /\ UNCHANGED <<posts, nextId, now, inv, up, viewPosted, platform, uploads, crashes, orphaned,
                   settings, env, job, call, script>>

CreateImageContainer ==
    /\ lib.pc = "image"
    /\ CredentialError("lib") = NoLog
    /\ \E r \in Responses :
          LET q == Request("threads", "IMAGE", lib.images[1], FALSE, NoParam, NoParam, r)
          IN  lib' = [Sent(q, r, "wait") EXCEPT
                         !.containerId = IF r.ok THEN ResponseId(Len(lib.calls) + 1) ELSE @]
    /\ UNCHANGED <<posts, nextId, now, inv, up, viewPosted, platform, uploads, crashes, orphaned,
                   settings, env, job, call, script>>

\* createCarouselContainer's loop: one item container, itemIds.push, the delay.
CreateCarouselItemContainer ==
    /\ lib.pc = "item"
    /\ CredentialError("lib") = NoLog
    /\ \E r \in Responses :
          LET url == lib.images[Len(lib.itemIds) + 1]
              q == Request("threads", "IMAGE", url, TRUE, NoParam, NoParam, r)
              last == Len(lib.itemIds) + 1 = Len(lib.images)
          IN  lib' = [Sent(q, r, IF last THEN "carousel" ELSE "item") EXCEPT
                         !.itemIds = IF r.ok THEN Append(@, ResponseId(Len(lib.calls) + 1)) ELSE @]
    /\ UNCHANGED <<posts, nextId, now, inv, up, viewPosted, platform, uploads, crashes, orphaned,
                   settings, env, job, call, script>>

\* createCarouselContainer after the loop: the CAROUSEL container.
CreateCarouselContainer ==
    /\ lib.pc = "carousel"
    /\ CredentialError("lib") = NoLog
    /\ \E r \in Responses :
          LET q == Request("threads", "CAROUSEL", NoParam, FALSE, Join(lib.itemIds), NoParam, r)
          IN  lib' = [Sent(q, r, "wait") EXCEPT
                         !.containerId = IF r.ok THEN ResponseId(Len(lib.calls) + 1) ELSE @]
    /\ UNCHANGED <<posts, nextId, now, inv, up, viewPosted, platform, uploads, crashes, orphaned,
                   settings, env, job, call, script>>

\* publishPost: the wait for media processing.
ProcessingWait ==
    /\ lib.pc = "wait"
    /\ lib' = [lib EXCEPT !.pc = "publish"]
    /\ UNCHANGED <<posts, nextId, now, inv, up, viewPosted, platform, uploads, crashes, orphaned,
                   settings, env, job, call, script>>

\* A publish call that names the first item container.
PublishContainerRequestFirstItem ==
    /\ lib.pc = "publish"
    /\ CredentialError("lib") = NoLog
    /\ \E r \in Responses :
          LET id == IF lib.itemIds # <<>> THEN lib.itemIds[1] ELSE lib.containerId
              q == Request("threads_publish", NoParam, NoParam, FALSE, NoParam, id, r)
          IN  lib' = [Sent(q, r, "returned") EXCEPT
                         !.result = IF r.ok THEN ResponseId(Len(lib.calls) + 1) ELSE @]
    /\ UNCHANGED <<posts, nextId, now, inv, up, viewPosted, platform, uploads, crashes, orphaned,
                   settings, env, job, call, script>>

\* publishContainer(containerId) and publishPost's return.
PublishContainerRequest ==
    /\ lib.pc = "publish"
    /\ CredentialError("lib") = NoLog
    /\ \E r \in Responses :
          LET q == Request("threads_publish", NoParam, NoParam, FALSE, NoParam, lib.containerId, r)
          IN  lib' = [Sent(q, r, "returned") EXCEPT
                         !.result = IF r.ok THEN ResponseId(Len(lib.calls) + 1) ELSE @]
    /\ UNCHANGED <<posts, nextId, now, inv, up, viewPosted, platform, uploads, crashes, orphaned,
                   settings, env, job, call, script>>

NextPublish ==
    \/ \E images \in ImageLists : PublishPost(images)
    \/ LibNoCredentials
    \/ CreateTextContainer
    \/ CreateImageContainer
    \/ CreateCarouselItemContainer
    \/ CreateCarouselContainer
    \/ ProcessingWait
    \/ PublishContainerRequest

SpecPublish == InitAnyEnv /\ [][NextPublish]_vars

----------------------------------------------------------------------------
\* The token-refresh job: GET /api/cron/refresh-token.

\* The lifetimes the platform reports (expires_in), in minutes.
Lifetimes == {Days(StaleDays), Days(SeedDays)}

\* The answers of the refresh endpoint.
RefreshResponses ==
    {[ok |-> TRUE, body |-> "json", message |-> NoMsg, access_token |-> "new-token",
      expires_in |-> life] : life \in Lifetimes}
        \cup {[ok |-> FALSE, body |-> "json", message |-> m, access_token |-> Unset,
               expires_in |-> 0] : m \in PlatformMsgs \cup {NoMsg}}
        \cup {[ok |-> FALSE, body |-> "text", message |-> NoMsg, access_token |-> Unset,
               expires_in |-> 0]}

\* throw new Error(`Token refresh failed: ${errorData.error?.message || "Unknown error"}`)
RefreshError(r) ==
    IF r.body # "json" THEN <<"SyntaxError: ", "Unexpected token in JSON">>
    ELSE <<"Token refresh failed: ", IF r.message # NoMsg THEN r.message ELSE "Unknown error">>

\* shouldRefreshToken: settings.tokenExpiry <= sevenDaysFromNow
StaleStrictly(t) == settings # NoSettings /\ settings.tokenExpiry < t + Days(StaleDays)
Stale(t) == settings # NoSettings /\ settings.tokenExpiry <= t + Days(StaleDays)

\* The rows a deployment can hold when the clock of the model starts: seeded
\* some time ago, with the expiry around the seven-day mark or sixty days off.
ExpiryChoices ==
    {Days(StaleDays) - 1, Days(StaleDays), Days(StaleDays) + 1, Days(StaleDays) + 2, Days(SeedDays)}

InitRefresh ==
    /\ InitStore
    /\ env \in {EnvConfigured, [EnvConfigured EXCEPT !.accessToken = Unset, !.userId = Unset]}
    /\ settings \in {NoSettings} \cup
           {[accessToken |-> EnvConfigured.accessToken, userId |-> EnvConfigured.userId,
             tokenExpiry |-> e] : e \in ExpiryChoices}

\* The cron trigger of the job.
JobStart ==
    /\ job.pc \in {"idle", "done"}
    /\ job' = [JobIdle EXCEPT !.pc = "init"]
    /\ UNCHANGED <<posts, nextId, now, inv, up, viewPosted, platform, uploads, crashes, orphaned,
                   settings, env, lib, call, script>>

\* initializeTokensInDB; a throw is answered 500.
JobInit ==
    /\ job.pc = "init"
    /\ IF InitThrows
       THEN job' = [job EXCEPT !.pc = "done", !.err = InitError] /\ UNCHANGED settings
       ELSE job' = [job EXCEPT !.pc = "check"] /\ settings' = Initialized(now)
    /\ UNCHANGED <<posts, nextId, now, inv, up, viewPosted, platform, uploads, crashes, orphaned,
                   env, lib, call, script>>

\* getTokenStatus and shouldRefreshToken: 500 without a row, "still valid"
\* when the token is not stale, else on to the refresh.
JobCheck ==
    /\ job.pc = "check"
    /\ job' = CASE settings = NoSettings ->
                       [job EXCEPT !.pc = "done", !.err = <<"No token found in database">>]
                [] settings # NoSettings /\ Stale(now) -> [job EXCEPT !.pc = "refresh"]
                [] OTHER -> [job EXCEPT !.pc = "done"]
    /\ UNCHANGED <<posts, nextId, now, inv, up, viewPosted, platform, uploads, crashes, orphaned,
                   settings, env, lib, call, script>>

\* refreshAccessToken: the row is read and the request sent.
JobRefreshRequest ==
    /\ job.pc = "refresh"
    /\ job' = IF settings = NoSettings
              THEN [job EXCEPT !.pc = "done",
                               !.err = <<"No token found in database. Initialize tokens first.">>]
              ELSE [job EXCEPT !.pc = "response", !.calls = @ + 1]
    /\ UNCHANGED <<posts, nextId, now, inv, up, viewPosted, platform, uploads, crashes, orphaned,
                   settings, env, lib, call, script>>

\* refreshAccessToken: the answer; on success the row gets the new token and
\* tokenExpiry = new Date() + expires_in.
JobRefreshResponse ==
    /\ job.pc = "response"
    /\ \E r \in RefreshResponses :
          IF r.ok
          THEN /\ settings' = [settings EXCEPT !.accessToken = r.access_token,
                                               !.tokenExpiry = now + r.expires_in]
               /\ job' = [job EXCEPT !.pc = "done", !.refreshed = TRUE,
                                     !.expiresIn = r.expires_in]
          ELSE /\ job' = [job EXCEPT !.pc = "done", !.err = RefreshError(r)]
               /\ UNCHANGED settings
    /\ UNCHANGED <<posts, nextId, now, inv, up, viewPosted, platform, uploads, crashes, orphaned,
                   env, lib, call, script>>

NextRefresh ==
    \/ Tick
    \/ JobStart
    \/ JobInit
    \/ JobCheck
    \/ JobRefreshRequest
    \/ JobRefreshResponse

SpecRefresh == InitRefresh /\ [][NextRefresh]_vars

----------------------------------------------------------------------------
\* Text, as the sequence of its characters.

Whitespace == {" ", "\n", "\r", "\t"}

Chars(n, c) == [k \in 1..n |-> c]

\* String.prototype.trim: from the first to the last character that is no whitespace.
Trim(s) ==
    LET solid == {k \in DOMAIN s : s[k] \notin Whitespace}
    IN  IF solid = {} THEN <<>>
        ELSE SubSeq(s, CHOOSE a \in solid : \A k \in 1..(a - 1) : s[k] \in Whitespace,
                       CHOOSE b \in solid : \A k \in (b + 1)..Len(s) : s[k] \in Whitespace)

\* String.prototype.startsWith
StartsWith(s, p) == Len(s) >= Len(p) /\ SubSeq(s, 1, Len(p)) = p

\* A Date that is null.
NoDate == <<>>

\* A Date, by its milliseconds since the epoch.
DateOf(ms) == <<ms>>
Ms(d) == d[1]

----------------------------------------------------------------------------
\* validatePost (lib/parser.ts).

ContentLimit == 500

HttpPrefix == <<"h", "t", "t", "p", ":", "/", "/">>
HttpsPrefix == <<"h", "t", "t", "p", "s", ":", "/", "/">>
RootPrefix == <<"/">>

ValidPath(img) ==
    StartsWith(img, HttpPrefix) \/ StartsWith(img, HttpsPrefix) \/ StartsWith(img, RootPrefix)

ContentRequired == <<"Content is required">>
ContentTooLong(n) == <<"Content exceeds 500 characters (", n, ")">>
InvalidImagePath(img) == <<"Invalid image path: ", img>>

\* The errors of the image loop, in the order of the images.
ImageErrors(images) ==
    LET bad == SelectSeq(images, LAMBDA img : ~ValidPath(img))
    IN  [k \in 1..Len(bad) |-> InvalidImagePath(bad[k])]

\* A validator that returns at the first rule that fails.
ValidatePostFirstError(post) ==
    LET all == (IF post.content = <<>> \/ Trim(post.content) = <<>>
                THEN <<ContentRequired>> ELSE <<>>)
               \o (IF post.content # <<>> /\ Len(post.content) > ContentLimit
                   THEN <<ContentTooLong(Len(post.content))>> ELSE <<>>)
               \o ImageErrors(post.images)
        errors == IF all = <<>> THEN <<>> ELSE <<Head(all)>>
    IN  [valid |-> Len(errors) = 0, errors |-> errors]

\* validatePost: an empty content stands for "" and for a missing one.
ValidatePost(post) ==
    LET required == IF post.content = <<>> \/ Trim(post.content) = <<>>
                    THEN <<ContentRequired>> ELSE <<>>
        long == IF post.content # <<>> /\ Len(post.content) > ContentLimit
                THEN <<ContentTooLong(Len(post.content))>> ELSE <<>>
        errors == required \o long \o ImageErrors(post.images)
    IN  [valid |-> Len(errors) = 0, errors |-> errors]

\* The posts the validator is applied to.
MaxPaths == 2

Contents == {<<>>, Chars(2, " "), <<"o", "k">>,
             Chars(ContentLimit, "a"), Chars(ContentLimit + 1, "a"),
             Chars(ContentLimit + 1, " ")}

Paths == {HttpPrefix \o <<"a">>, HttpsPrefix \o <<"a">>, <<"/", "a">>, <<"a">>,
          <<"f", "t", "p", ":", "/", "/", "a">>, <<>>}

PathLists == UNION {[1..n -> Paths] : n \in 0..MaxPaths}

ParsedPost(content, images, scheduledAt) ==
    [content |-> content, images |-> images, scheduledAt |-> scheduledAt]

\* A call that has been made and has not answered yet.
Called(op, arg) == [op |-> op, arg |-> arg, done |-> FALSE, out |-> <<>>]

\* One call of validatePost.
ValidateCall ==
    /\ call.op = "validatePost"
    /\ ~call.done
    /\ call' = [call EXCEPT !.done = TRUE, !.out = ValidatePost(call.arg)]
    /\ UNCHANGED <<posts, nextId, now, inv, up, viewPosted, platform, uploads, crashes, orphaned,
                   settings, env, lib, job, script>>

\* A deployment in which nothing runs but the call.
InitCalled(calls) ==
    /\ posts = <<>>
    /\ nextId = 0
    /\ now = 0
    /\ inv = [i \in Slots |-> Idle]
    /\ up = UpIdle
    /\ viewPosted = {}
    /\ platform = [p \in Ids |-> [cron |-> 0, manual |-> 0]]
    /\ uploads = 0
    /\ crashes = 0
    /\ orphaned = {}
    /\ lib = LibIdle
    /\ job = JobIdle
    /\ script = LibIdle
    /\ env = EnvConfigured
    /\ settings = NoSettings
    /\ call \in calls

InitValidate ==
    InitCalled({Called("validatePost", ParsedPost(c, images, NoDate)) :
                   c \in Contents, images \in PathLists})

SpecValidate == InitValidate /\ [][ValidateCall]_vars

----------------------------------------------------------------------------
\* POST /api/posts, in its four versions, and the dashboard's file upload.

MsPerMinute == 60000
MsPerHour == 60 * MsPerMinute
MsPerDay == 24 * MsPerHour

\* The default schedule of each version: one second apart, one minute apart,
\* the time of creation, the daily KST slots.
Routes == {"second", "minute", "now", "kst"}

SecondStep == 1000
MinuteStep == 60000

KstOffsetHours == 9
KST_SLOTS == <<[hour |-> 7, minute |-> 0], [hour |-> 8, minute |-> 30],
               [hour |-> 10, minute |-> 0], [hour |-> 11, minute |-> 30],
               [hour |-> 13, minute |-> 0], [hour |-> 14, minute |-> 30],
               [hour |-> 16, minute |-> 0], [hour |-> 17, minute |-> 30],
               [hour |-> 19, minute |-> 0], [hour |-> 20, minute |-> 30]>>

\* date.setUTCDate(date.getUTCDate() + k): a day past the month's end rolls over.
AddUTCDays(t, k) == t + k * MsPerDay

\* date.setUTCHours(h, m, 0, 0): an hour below 0 rolls back to the day before.
SetUTCHours(t, h, m) == (t \div MsPerDay) * MsPerDay + h * MsPerHour + m * MsPerMinute

\* startDate of a request handled at t.
StartDate(t) == SetUTCHours(AddUTCDays(t + KstOffsetHours * MsPerHour, 1), 7 - KstOffsetHours, 0)

\* The slot of the post at index (from 0) of a batch handled at t.
KstScheduledAt(t, index) ==
    LET dayOffset == index \div Len(KST_SLOTS)
        slot == KST_SLOTS[(index % Len(KST_SLOTS)) + 1]
    IN  SetUTCHours(AddUTCDays(StartDate(t), dayOffset), slot.hour - KstOffsetHours, slot.minute)

\* scheduledAt of the post at position k (from 1) that carries none; clock[k]
\* is the clock's reading when the map reaches that post.
DefaultScheduledAt(route, clock, k) ==
    CASE route = "second" -> clock[1] + (k - 1) * SecondStep
      [] route = "minute" -> clock[1] + (k - 1) * MinuteStep
      [] route = "now" -> clock[k]
      [] route = "kst" -> KstScheduledAt(clock[1], k - 1)

\* data of prisma.post.create
CreateData(route, clock, batch, k) ==
    [content |-> batch[k].content,
     imageUrls |-> <<"json", batch[k].images>>,
     scheduledAt |-> IF batch[k].scheduledAt # NoDate THEN batch[k].scheduledAt
                     ELSE DateOf(DefaultScheduledAt(route, clock, k)),
     status |-> "PENDING"]

\* details of the 400 answer: index (from 0) and errors of each invalid post.
InvalidDetails(batch) ==
    LET results == [k \in 1..Len(batch) |->
                       [index |-> k - 1, valid |-> ValidatePost(batch[k]).valid,
                        errors |-> ValidatePost(batch[k]).errors]]
        invalidPosts == SelectSeq(results, LAMBDA r : ~r.valid)
    IN  [k \in 1..Len(invalidPosts) |->
            [index |-> invalidPosts[k].index, errors |-> invalidPosts[k].errors]]

\* POST /api/posts: the answer and the rows created.
PostPosts(route, clock, batch) ==
    IF Len(batch) = 0
    THEN [status |-> 400, error |-> <<"No posts provided">>, details |-> <<>>, created |-> <<>>]
    ELSE IF InvalidDetails(batch) # <<>>
    THEN [status |-> 400, error |-> <<"Some posts are invalid">>,
          details |-> InvalidDetails(batch), created |-> <<>>]
    ELSE [status |-> 200, error |-> <<>>, details |-> <<>>,
          created |-> [k \in 1..Len(batch) |-> CreateData(route, clock, batch, k)]]

\* Dashboard.handleFileSelect after the parse: the toast and the route's answer.
NoAnswer == [status |-> 0, error |-> <<>>, details |-> <<>>, created |-> <<>>]

HandleFileSelect(route, clock, parsedPosts) ==
    LET validPosts == SelectSeq(parsedPosts, LAMBDA p : ValidatePost(p).valid)
        answer == PostPosts(route, clock, validPosts)
    IN  IF Len(parsedPosts) = 0
        THEN [toast |-> <<"error", "No posts found in file">>, sent |-> <<>>, answer |-> NoAnswer]
        ELSE IF Len(validPosts) = 0
        THEN [toast |-> <<"error", "no valid posts">>, sent |-> <<>>, answer |-> NoAnswer]
        ELSE IF answer.status # 200
        THEN [toast |-> <<"error", answer.error>>, sent |-> validPosts, answer |-> answer]
        ELSE [toast |-> <<"success", Len(answer.created)>>, sent |-> validPosts,
              answer |-> answer]

\* The batches of the ingestion model.
MaxBatch == 2
MaxDrift == 1

IngestStart == MsPerDay + 3 * MsPerHour
ExplicitDate == DateOf(MsPerDay)

PostChoices ==
    {ParsedPost(c, images, at) :
        c \in {<<"o", "k">>, Chars(ContentLimit + 1, "a")},
        images \in {<<>>, <<<<"a">>>>},
        at \in {NoDate, ExplicitDate}}

Batches == UNION {[1..n -> PostChoices] : n \in 0..MaxBatch}

\* The readings of a clock that never runs backwards, one per post.
Clocks(n) ==
    {c \in [1..n -> {IngestStart + d : d \in 0..MaxDrift}] :
        \A j, k \in 1..n : j <= k => c[j] <= c[k]}

\* A client posts a batch to the route.
PostCall ==
    /\ call.op = "POST /api/posts"
    /\ ~call.done
    /\ call' = [call EXCEPT !.done = TRUE, !.out =
                   [toast |-> <<"none">>, sent |-> call.arg.posts,
                    answer |-> PostPosts(call.arg.route, call.arg.clock, call.arg.posts)]]
    /\ UNCHANGED <<posts, nextId, now, inv, up, viewPosted, platform, uploads, crashes, orphaned,
                   settings, env, lib, job, script>>

\* The dashboard uploads a file whose parse gave the batch.
FileSelectCall ==
    /\ call.op = "handleFileSelect"
    /\ ~call.done
    /\ call' = [call EXCEPT !.done = TRUE, !.out =
                   HandleFileSelect(call.arg.route, call.arg.clock, call.arg.posts)]
    /\ UNCHANGED <<posts, nextId, now, inv, up, viewPosted, platform, uploads, crashes, orphaned,
                   settings, env, lib, job, script>>

InitIngest ==
    InitCalled({Called(op, [route |-> route, clock |-> clock, posts |-> batch]) :
                   op \in {"POST /api/posts", "handleFileSelect"},
                   route \in Routes,
                   batch \in Batches,
                   clock \in Clocks(MaxBatch)})

SpecIngest == InitIngest /\ [][PostCall \/ FileSelectCall]_vars

\* Batches of posts that carry no schedule, sent to the KST version at each
\* hour of a day.
MaxSlotBatch == 21
SlotHours == 24

PlainPost == ParsedPost(<<"o", "k">>, <<>>, NoDate)

InitSlots ==
    InitCalled({Called("POST /api/posts",
                       [route |-> "kst",
                        clock |-> [k \in 1..n |-> MsPerDay + h * MsPerHour],
                        posts |-> [k \in 1..n |-> PlainPost]]) :
                   n \in 1..MaxSlotBatch, h \in 0..(SlotHours - 1)})

SpecSlots == InitSlots /\ [][PostCall]_vars

----------------------------------------------------------------------------
\* String functions of the parsers, on sequences of characters.

Newline == <<"\n">>
HeaderMark == <<"#", "#", "#", " ">>
HeaderSplit == <<"\n", "#", "#", "#", " ">>
TitleMark == <<"#", " ">>
Separator == <<"-", "-", "-">>
OpenSeparator == <<"-", "-", "-", "\n">>
CloseSeparator == <<"\n", "-", "-", "-">>
ScheduledAtKey == <<"s", "c", "h", "e", "d", "u", "l", "e", "d", "A", "t", ":">>
ImagesKey == <<"i", "m", "a", "g", "e", "s", ":">>
Dash == <<"-">>
Colon == <<":">>
Comma == <<",">>
Digits == <<"0", "1", "2", "3", "4", "5", "6", "7", "8", "9">>

Drop(s, n) == SubSeq(s, n + 1, Len(s))

\* String.prototype.indexOf(p, from - 1) + 1: the first position from `from` on
\* at which p occurs, 0 when there is none.
IndexFrom(s, p, from) ==
    LET hits == {i \in from..(Len(s) - Len(p) + 1) : SubSeq(s, i, i + Len(p) - 1) = p}
    IN  IF hits = {} THEN 0 ELSE CHOOSE i \in hits : \A j \in hits : i <= j

IndexOf(s, p) == IndexFrom(s, p, 1)

\* String.prototype.includes
Includes(s, p) == IndexOf(s, p) # 0

\* String.prototype.endsWith
EndsWith(s, p) == Len(s) >= Len(p) /\ SubSeq(s, Len(s) - Len(p) + 1, Len(s)) = p

\* String.prototype.split(sep), for a separator that is a string.
RECURSIVE Split(_, _)
Split(s, sep) ==
    LET i == IndexOf(s, sep)
    IN  IF i = 0 THEN <<s>>
        ELSE <<SubSeq(s, 1, i - 1)>> \o Split(Drop(s, i + Len(sep) - 1), sep)

\* normalized.split(/\n### |^### /): the second alternative matches at the
\* start of the text only.
SplitChunks(s) ==
    IF StartsWith(s, HeaderMark) THEN <<<<>>>> \o Split(Drop(s, Len(HeaderMark)), HeaderSplit)
    ELSE Split(s, HeaderSplit)

\* The lines of a text joined by newlines.
RECURSIVE JoinLines(_)
JoinLines(lines) ==
    IF lines = <<>> THEN <<>>
    ELSE IF Len(lines) = 1 THEN lines[1]
    ELSE lines[1] \o Newline \o JoinLines(Tail(lines))

\* content.replace(/\r\n/g, '\n')
NormalizeNewlines(s) == JoinLines(Split(s, <<"\r", "\n">>))

----------------------------------------------------------------------------
\* parseScheduleDate (lib/parser.ts).

IsDigits(s) == \A k \in DOMAIN s : s[k] \in Range(Digits)

DigitValue(c) == (CHOOSE k \in DOMAIN Digits : Digits[k] = c) - 1

\* parseInt of a run of digits
RECURSIVE ParseInt(_)
ParseInt(s) ==
    IF s = <<>> THEN 0 ELSE 10 * ParseInt(SubSeq(s, 1, Len(s) - 1)) + DigitValue(s[Len(s)])

\* /^(\d{4})-(\d{2})-(\d{2})/
DatePrefix(s) ==
    /\ Len(s) >= 10
    /\ IsDigits(SubSeq(s, 1, 4)) /\ s[5] = "-"
    /\ IsDigits(SubSeq(s, 6, 7)) /\ s[8] = "-"
    /\ IsDigits(SubSeq(s, 9, 10))

\* /(\d{2}):(\d{2})$/ on the last five characters
TimeSuffix(s) ==
    /\ Len(s) >= 5
    /\ IsDigits(SubSeq(s, Len(s) - 4, Len(s) - 3)) /\ s[Len(s) - 2] = ":"
    /\ IsDigits(SubSeq(s, Len(s) - 1, Len(s)))

\* /^(\d{4})-(\d{2})-(\d{2})\s+(\d{2}):(\d{2})$/
LocalFormat(s) ==
    /\ Len(s) >= 16
    /\ DatePrefix(s)
    /\ TimeSuffix(s)
    /\ \A k \in 11..(Len(s) - 5) : s[k] \in Whitespace

\* new Date(dateStr) understands the ISO forms: a date, or a date, a T and a time.
IsoFormat(s) ==
    /\ DatePrefix(s)
    /\ \/ Len(s) = 10
       \/ Len(s) = 16 /\ s[11] = "T" /\ TimeSuffix(s)

\* new Date(year, month - 1, day, hour, minute): a local time, by its fields.
LocalDate(s) ==
    <<"local", ParseInt(SubSeq(s, 1, 4)), ParseInt(SubSeq(s, 6, 7)), ParseInt(SubSeq(s, 9, 10)),
      ParseInt(SubSeq(s, Len(s) - 4, Len(s) - 3)), ParseInt(SubSeq(s, Len(s) - 1, Len(s)))>>

IsoDate(s) ==
    <<"utc", ParseInt(SubSeq(s, 1, 4)), ParseInt(SubSeq(s, 6, 7)), ParseInt(SubSeq(s, 9, 10)),
      IF Len(s) = 10 THEN 0 ELSE ParseInt(SubSeq(s, 12, 13)),
      IF Len(s) = 10 THEN 0 ELSE ParseInt(SubSeq(s, 15, 16))>>

ParseScheduleDate(dateStr) ==
    IF dateStr = <<>> THEN NoDate
    ELSE IF LocalFormat(dateStr) THEN LocalDate(dateStr)
    ELSE IF IsoFormat(dateStr) THEN IsoDate(dateStr)
    ELSE NoDate

----------------------------------------------------------------------------
\* parseFrontmatter (lib/parser.ts).

\* The loop over the lines: scheduledAt, images and inImages after the lines.
RECURSIVE FrontmatterLines(_, _)
FrontmatterLines(lines, acc) ==
    IF lines = <<>> THEN acc
    ELSE LET trimmedLine == Trim(Head(lines))
             imageUrl == Trim(Drop(trimmedLine, 1))
             next ==
                 IF StartsWith(trimmedLine, ScheduledAtKey)
                 THEN [acc EXCEPT !.scheduledAt = Trim(Drop(trimmedLine, Len(ScheduledAtKey))),
                                  !.inImages = FALSE]
                 ELSE IF StartsWith(trimmedLine, ImagesKey)
                 THEN [acc EXCEPT !.inImages = TRUE]
                 ELSE IF acc.inImages /\ StartsWith(trimmedLine, Dash)
                 THEN IF imageUrl # <<>>
                      THEN [acc EXCEPT !.images = Append(acc.images, imageUrl)]
                      ELSE acc
                 ELSE IF Includes(trimmedLine, Colon) /\ ~StartsWith(trimmedLine, Dash)
                 THEN [acc EXCEPT !.inImages = FALSE]
                 ELSE acc
         IN  FrontmatterLines(Tail(lines), next)

\* cleanContent.replace(/\n---\s*$/, '')
StripTrailingSeparator(s) ==
    LET hits == {i \in 1..(Len(s) - 3) :
                    /\ SubSeq(s, i, i + 3) = CloseSeparator
                    /\ \A k \in (i + 4)..Len(s) : s[k] \in Whitespace}
    IN  IF hits = {} THEN s
        ELSE SubSeq(s, 1, (CHOOSE i \in hits : \A j \in hits : i <= j) - 1)

\* cleanContent.replace(/^###[^\n]*\n/, '')
StripLeadingHeader(s) ==
    IF StartsWith(s, <<"#", "#", "#">>) /\ IndexOf(s, Newline) # 0
    THEN Drop(s, IndexOf(s, Newline))
    ELSE s

\* No post: the null of parseFrontmatter.
NoPost == <<>>

\* parseFrontmatter: a sequence of one post, or NoPost.
ParseFrontmatter(frontmatterStr, postContent) ==
    LET parsed == FrontmatterLines(Split(frontmatterStr, Newline),
                                   [scheduledAt |-> <<>>, images |-> <<>>, inImages |-> FALSE])
        cleanContent == Trim(StripLeadingHeader(Trim(StripTrailingSeparator(postContent))))
    IN  IF cleanContent = <<>> THEN NoPost
        ELSE <<ParsedPost(cleanContent, parsed.images,
                          IF parsed.scheduledAt # <<>> THEN ParseScheduleDate(parsed.scheduledAt)
                          ELSE NoDate)>>

----------------------------------------------------------------------------
\* parseMarkdownFile (lib/parser.ts).

\* body.match(/^---\n([\s\S]*?)\n---/): the position of the closing "\n---",
\* 0 when the body does not match.
CloseAt(body) ==
    IF StartsWith(body, OpenSeparator)
    THEN IndexFrom(body, CloseSeparator, Len(OpenSeparator) + 1)
    ELSE 0

\* The post of a separator block without keys: its content, as it is.
EnvelopePost(part1) == <<ParsedPost(part1, <<>>, NoDate)>>

\* One iteration of the loop over the chunks: the posts it pushes.
ChunkPosts(chunk) ==
    LET firstLineEnd == IndexOf(chunk, Newline)
        body == Trim(Drop(chunk, firstLineEnd - 1))
        closeAt == CloseAt(body)
        part1 == Trim(SubSeq(body, Len(OpenSeparator) + 1, closeAt - 1))
        rest == Trim(Drop(body, closeAt + Len(CloseSeparator) - 1))
        cleanContent == Trim(IF EndsWith(body, Separator)
                             THEN SubSeq(body, 1, Len(body) - Len(Separator))
                             ELSE body)
    IN  IF Trim(chunk) = <<>> THEN NoPost
        ELSE IF StartsWith(Trim(chunk), TitleMark) THEN NoPost
        ELSE IF firstLineEnd = 0 THEN NoPost
        ELSE IF body = <<>> THEN NoPost
        ELSE IF closeAt # 0
        THEN IF Includes(part1, ScheduledAtKey) \/ Includes(part1, ImagesKey)
             THEN ParseFrontmatter(part1, IF rest # <<>> THEN rest ELSE <<" ">>)
             ELSE EnvelopePost(part1)
        ELSE IF cleanContent # <<>> THEN <<ParsedPost(cleanContent, <<>>, NoDate)>>
        ELSE NoPost

RECURSIVE LoopPosts(_)
LoopPosts(chunks) ==
    IF chunks = <<>> THEN <<>> ELSE ChunkPosts(Head(chunks)) \o LoopPosts(Tail(chunks))

\* gray-matter: the front matter of a text that opens with "---" runs to the
\* next "\n---", or to the end when there is none; the content is what follows.
Matter(text) ==
    LET str == Drop(text, Len(Separator))
        closeIndex == IndexOf(str, CloseSeparator)
        block == IF closeIndex = 0 THEN str ELSE SubSeq(str, 1, closeIndex - 1)
        after == IF closeIndex = 0 THEN <<>> ELSE Drop(str, closeIndex + Len(CloseSeparator) - 1)
        parsed == FrontmatterLines(Split(block, Newline),
                                   [scheduledAt |-> <<>>, images |-> <<>>, inImages |-> FALSE])
    IN  IF ~StartsWith(text, Separator) \/ StartsWith(text, Separator \o Dash)
        THEN [content |-> text, images |-> <<>>, scheduledAt |-> <<>>]
        ELSE [content |-> IF StartsWith(after, Newline) THEN Tail(after) ELSE after,
              images |-> parsed.images, scheduledAt |-> parsed.scheduledAt]

\* The single-document fallback.
FallbackPosts(content) ==
    LET parsed == Matter(content)
    IN  IF Trim(parsed.content) = <<>> THEN <<>>
        ELSE <<ParsedPost(Trim(parsed.content), parsed.images,
                          IF parsed.scheduledAt # <<>> THEN ParseScheduleDate(parsed.scheduledAt)
                          ELSE NoDate)>>

\* parseMarkdownFile: the posts, the path taken, and whether it threw.
ParseMarkdownFile(content) ==
    LET found == LoopPosts(SplitChunks(NormalizeNewlines(content)))
    IN  IF Len(found) = 0
        THEN [raised |-> FALSE, fallback |-> TRUE, posts |-> FallbackPosts(content)]
        ELSE [raised |-> FALSE, fallback |-> FALSE, posts |-> found]

\* The texts the parser is applied to: every text of up to MaxLines lines out
\* of the kinds of line the dialects know, and the documents made of a
\* frontmatter block and a body, with or without a header above.
MaxLines == 4
MaxUrls == 2

HeaderLine == <<"#", "#", "#", " ", "T">>
TitleLine == <<"#", " ", "T">>
ScheduleLine == <<"s", "c", "h", "e", "d", "u", "l", "e", "d", "A", "t", ":", " ", "2", "0", "2", "6", "-", "0", "2", "-", "0", "1", " ", "0", "9", ":", "0", "0">>
UrlLine(n) == <<" ", " ", "-", " ", "/", Digits[n + 1]>>
BodyLine == <<"B", "o", "d", "y">>
BlankLine == <<>>

LineChoices ==
    {HeaderLine, TitleLine, Separator, ScheduleLine, ImagesKey, UrlLine(1), BodyLine, BlankLine}

Frontmatter(n) ==
    <<Separator, ScheduleLine, ImagesKey>> \o [k \in 1..n |-> UrlLine(k)] \o <<Separator>>

Documents ==
    {JoinLines(above \o Frontmatter(n) \o below) :
        above \in {<<>>, <<HeaderLine>>, <<BlankLine>>},
        n \in 0..MaxUrls,
        below \in {<<>>, <<BodyLine>>, <<BodyLine, BlankLine>>}}

\* A document saved with Windows line ends.
CrLfDocument == HeaderLine \o <<"\r", "\n">> \o BodyLine \o <<"\r", "\n">>

Texts == {JoinLines(lines) : lines \in UNION {[1..n -> LineChoices] : n \in 1..MaxLines}}
         \cup Documents
         \cup {CrLfDocument}

\* One call of parseMarkdownFile.
ParseMarkdownCall ==
    /\ call.op = "parseMarkdownFile"
    /\ ~call.done
    /\ call' = [call EXCEPT !.done = TRUE, !.out = ParseMarkdownFile(call.arg)]
    /\ UNCHANGED <<posts, nextId, now, inv, up, viewPosted, platform, uploads, crashes, orphaned,
                   settings, env, lib, job, script>>

----------------------------------------------------------------------------
\* parseExcelFile (lib/parser.ts): the rows as sheet_to_json gives them, a
\* cell being a string, a number, or absent when the sheet has none.

Absent == [t |-> "absent", v |-> <<>>]
Text(s) == [t |-> "string", v |-> s]
Number(n) == [t |-> "number", v |-> <<n>>]

\* JavaScript's truthiness of a cell
Truthy(cell) ==
    \/ cell.t = "string" /\ cell.v # <<>>
    \/ cell.t = "number" /\ cell.v # <<0>>

\* row.content && row.content.trim(): calling trim on a number throws.
Kept(row) == Truthy(row.content) /\ Trim(row.content.v) # <<>>

\* row.images.split(",").map((img) => img.trim()).filter(Boolean)
SplitImages(s) == SelectSeq([k \in DOMAIN Split(s, Comma) |-> Trim(Split(s, Comma)[k])],
                            LAMBDA img : img # <<>>)

\* TypeError: a string method called on a cell that holds a number.
RowRaises(row) ==
    \/ Truthy(row.content) /\ row.content.t = "number"
    \/ /\ Truthy(row.content) /\ row.content.t = "string" /\ Trim(row.content.v) # <<>>
       /\ \/ Truthy(row.images) /\ row.images.t = "number"
          \/ Truthy(row.scheduledAt) /\ row.scheduledAt.t = "number"

RowPost(row) ==
    ParsedPost(Trim(row.content.v),
               IF Truthy(row.images) THEN SplitImages(row.images.v) ELSE <<>>,
               IF Truthy(row.scheduledAt) THEN ParseScheduleDate(row.scheduledAt.v) ELSE NoDate)

\* parseExcelFile: the posts, or the exception.
ParseExcelFile(rows) ==
    IF \E k \in DOMAIN rows : RowRaises(rows[k])
    THEN [raised |-> TRUE, fallback |-> FALSE, posts |-> <<>>]
    ELSE LET kept == SelectSeq(rows, Kept)
         IN  [raised |-> FALSE, fallback |-> FALSE,
              posts |-> [k \in DOMAIN kept |-> RowPost(kept[k])]]

\* The sheets the parser is applied to.
MaxRows == 2

ContentCells == {Absent, Text(<<"o", "k">>), Text(<<" ">>), Number(0), Number(7)}
ImageCells == {Absent, Text(<<"/", "a", ",", " ", ",", "/", "b">>), Number(7)}
ScheduleCells == {Absent, Text(Trim(Drop(ScheduleLine, Len(ScheduledAtKey)))),
                  Text(<<"s", "o", "o", "n">>), Number(7)}

Rows == [content : ContentCells, images : ImageCells, scheduledAt : ScheduleCells]

Sheets == UNION {[1..n -> Rows] : n \in 0..MaxRows}

\* One call of parseExcelFile.
ParseExcelCall ==
    /\ call.op = "parseExcelFile"
    /\ ~call.done
    /\ call' = [call EXCEPT !.done = TRUE, !.out = ParseExcelFile(call.arg)]
    /\ UNCHANGED <<posts, nextId, now, inv, up, viewPosted, platform, uploads, crashes, orphaned,
                   settings, env, lib, job, script>>

InitParse ==
    InitCalled({Called("parseMarkdownFile", text) : text \in Texts}
               \cup {Called("parseExcelFile", sheet) : sheet \in Sheets})

SpecParse == InitParse /\ [][ParseMarkdownCall \/ ParseExcelCall]_vars

----------------------------------------------------------------------------
\* The cron endpoints' secret check (GET /api/cron/publish, both versions, and
\* GET /api/cron/refresh-token).

\* A header or a query parameter the request does not have.
NoValue == <<>>

Bearer == "Bearer "

\* The Authorization header, by its parts, and the `secret` query parameter.
Authorizations ==
    {NoValue, <<Bearer, EnvConfigured.cronSecret>>, <<Bearer, "wrong">>,
     <<EnvConfigured.cronSecret>>, <<Bearer>>}

Secrets == {NoValue, <<EnvConfigured.cronSecret>>, <<"wrong">>}

Requests == [authorization : Authorizations, secret : Secrets]

\* header.replace("Bearer ", ""): the first occurrence goes.
RemoveBearer(h) ==
    LET hits == {k \in DOMAIN h : h[k] = Bearer}
        first == CHOOSE k \in hits : \A j \in hits : k <= j
    IN  IF hits = {} THEN h ELSE SubSeq(h, 1, first - 1) \o SubSeq(h, first + 1, Len(h))

\* request.headers.get("authorization")?.replace("Bearer ", "") ||
\* request.nextUrl.searchParams.get("secret")
ProvidedSecret(req) ==
    IF RemoveBearer(req.authorization) # NoValue THEN RemoveBearer(req.authorization)
    ELSE req.secret

\* cronSecret && providedSecret !== cronSecret
Unauthorized(req) == env.cronSecret # Unset /\ ProvidedSecret(req) # <<env.cronSecret>>

Rejected(op, req) ==
    [op |-> op, arg |-> req, done |-> TRUE, out |-> [status |-> 401, error |-> "Unauthorized"]]

\* A request that passed the check; its answer comes at the end of the handler.
Accepted(op, req) ==
    [op |-> op, arg |-> req, done |-> FALSE, out |-> [status |-> 0, error |-> ""]]

\* GET /api/cron/publish: the check, then the trigger.
CronRequest(i, kind, req) ==
    /\ inv[i].pc \in {"idle", "done"}
    /\ IF Unauthorized(req)
       THEN /\ call' = Rejected("GET /api/cron/publish", req)
            /\ UNCHANGED inv
       ELSE /\ call' = Accepted("GET /api/cron/publish", req)
            /\ \E s \in FindMany(kind, now) : inv' = [inv EXCEPT ![i] = Selected(kind, s)]
    /\ UNCHANGED <<posts, nextId, now, up, viewPosted, platform, uploads, crashes, orphaned,
                   settings, env, lib, job, script>>

\* GET /api/cron/refresh-token: the check, then the job.
RefreshRequest(req) ==
    /\ job.pc \in {"idle", "done"}
    /\ IF Unauthorized(req)
       THEN /\ call' = Rejected("GET /api/cron/refresh-token", req)
            /\ UNCHANGED job
       ELSE /\ call' = Accepted("GET /api/cron/refresh-token", req)
            /\ job' = [JobIdle EXCEPT !.pc = "init"]
    /\ UNCHANGED <<posts, nextId, now, inv, up, viewPosted, platform, uploads, crashes, orphaned,
                   settings, env, lib, script>>

\* A deployment with or without CRON_SECRET.
InitCron ==
    /\ InitStore
    /\ env \in {EnvConfigured, [EnvConfigured EXCEPT !.cronSecret = Unset]}
    /\ settings \in {NoSettings, SeededRow(0)}

\* The credentials are configured and the token is fresh: the handlers that
\* pass the check run their steps for that case.
NextCron ==
    \/ Ingest
    \/ \E kind \in {"cron10", "cron1"}, req \in Requests : CronRequest("s1", kind, req)
    \/ CreateContainer("s1")
    \/ PublishContainer("s1")
    \/ UpdatePublished("s1")
    \/ UpdateFailed("s1")
    \/ \E req \in Requests : RefreshRequest(req)
    \/ JobInit
    \/ JobCheck

SpecCron == InitCron /\ [][NextCron]_vars

----------------------------------------------------------------------------
\* The standalone script's publishPost (scripts/publish-standalone), request
\* by request, next to the library's.

NoSettingsError == <<"No Threads settings found in DB">>

\* await res.json(), then if (!res.ok) throw new Error(`${prefix}${data.error?.message
\* || "Unknown error"}`).
ScriptResponseError(prefix, r) ==
    IF r.body # "json" THEN <<"SyntaxError: ", "Unexpected token in JSON">>
    ELSE <<prefix, IF r.message # NoMsg THEN r.message ELSE "Unknown error">>

ScriptSent(q, r, okPc, prefix) ==
    IF r.ok THEN [script EXCEPT !.calls = Append(@, q), !.response = r, !.pc = okPc]
            ELSE [script EXCEPT !.calls = Append(@, q), !.response = r,
                                !.pc = "thrown", !.err = ScriptResponseError(prefix, r)]

\* publishPost(text, imageUrls) is called.
ScriptPublishPost(images) ==
    /\ script.pc \in {"idle", "returned", "thrown"}
    /\ script' = [LibIdle EXCEPT !.images = images, !.pc = "settings"]
    /\ UNCHANGED <<posts, nextId, now, inv, up, viewPosted, platform, uploads, crashes, orphaned,
                   settings, env, lib, job, call>>

\* prisma.settings.findUnique and the branch on imageUrls.length.
ScriptFindSettings ==
    /\ script.pc = "settings"
    /\ script' = IF settings = NoSettings
                 THEN [script EXCEPT !.pc = "thrown", !.err = NoSettingsError]
                 ELSE [script EXCEPT !.pc = IF Len(script.images) = 0 THEN "text" ELSE "image"]
    /\ UNCHANGED <<posts, nextId, now, inv, up, viewPosted, platform, uploads, crashes, orphaned,
                   settings, env, lib, job, call>>

ScriptCreateTextContainer ==
    /\ script.pc = "text"
    /\ \E r \in Responses :
          LET q == Request("threads", "TEXT", NoParam, FALSE, NoParam, NoParam, r)
          IN  script' = [ScriptSent(q, r, "wait", "Threads API Error (Text): ") EXCEPT
                            !.containerId = IF r.ok THEN ResponseId(Len(script.calls) + 1) ELSE @]
    /\ UNCHANGED <<posts, nextId, now, inv, up, viewPosted, platform, uploads, crashes, orphaned,
                   settings, env, lib, job, call>>

\* One IMAGE container, of the first url, whatever the number of urls.
ScriptCreateImageContainer ==
    /\ script.pc = "image"
    /\ \E r \in Responses :
          LET q == Request("threads", "IMAGE", script.images[1], FALSE, NoParam, NoParam, r)
          IN  script' = [ScriptSent(q, r, "wait", "Threads API Error (Image): ") EXCEPT
                            !.containerId = IF r.ok THEN ResponseId(Len(script.calls) + 1) ELSE @]
    /\ UNCHANGED <<posts, nextId, now, inv, up, viewPosted, platform, uploads, crashes, orphaned,
                   settings, env, lib, job, call>>

\* The wait for processing.
ScriptWait ==
    /\ script.pc = "wait"
    /\ script' = [script EXCEPT !.pc = "publish"]
    /\ UNCHANGED <<posts, nextId, now, inv, up, viewPosted, platform, uploads, crashes, orphaned,
                   settings, env, lib, job, call>>

\* threads_publish and the return of its id.
ScriptPublish ==
    /\ script.pc = "publish"
    /\ \E r \in Responses :
          LET q == Request("threads_publish", NoParam, NoParam, FALSE, NoParam,
                           script.containerId, r)
          IN  script' = [ScriptSent(q, r, "returned", "Threads Publish Error: ") EXCEPT
                            !.result = IF r.ok THEN ResponseId(Len(script.calls) + 1) ELSE @]
    /\ UNCHANGED <<posts, nextId, now, inv, up, viewPosted, platform, uploads, crashes, orphaned,
                   settings, env, lib, job, call>>

\* Both clients, each called with any image list.
NextBoth ==
    \/ NextPublish
    \/ \E images \in ImageLists : ScriptPublishPost(images)
    \/ ScriptFindSettings
    \/ ScriptCreateTextContainer
    \/ ScriptCreateImageContainer
    \/ ScriptWait
    \/ ScriptPublish

SpecBoth == InitAnyEnv /\ [][NextBoth]_vars

----------------------------------------------------------------------------
\* Invocation i has just been triggered in this step.
Triggered(i) == inv[i].pc \in {"idle", "done"} /\ inv'[i] # inv[i]

\* Invocation i answers in this step.
Completes(i) == inv[i].pc \notin {"idle", "done"} /\ inv'[i].pc = "done"

\* The selection of a trigger: PENDING rows within the query's cutoff, none
\* left out that is scheduled before a selected one, as many as the cap allows.
C1_Selection(i) ==
    LET sel == inv'[i].sel
        ids == SelIds(sel)
        due == Matching(inv'[i].kind, now)
    IN  /\ ids \subseteq due
        /\ Cardinality(ids) = Len(sel)
        /\ Len(sel) = Min(Take(inv'[i].kind), Cardinality(due))
        /\ \A a \in ids, q \in due \ ids : posts[a].scheduledAt <= posts[q].scheduledAt

\* No call for b before the outcome of an earlier-scheduled a is recorded.
C1_InOrder(i) ==
    \A a, b \in DOMAIN inv[i].sel :
        (inv[i].sel[a].scheduledAt < inv[i].sel[b].scheduledAt /\ inv[i].sel[b].id \in inv[i].issued)
            => inv[i].sel[a].id \in inv[i].recorded

C8_OneInFlight ==
    \A i \in Slots :
        /\ Cardinality(inv[i].issued \ inv[i].recorded) <= 1
        /\ inv[i].pc \in {"publish", "update", "catch"} => inv[i].issued \ inv[i].recorded \subseteq {Cur(i)}
        /\ inv[i].pc = "container" => inv[i].issued \subseteq inv[i].recorded

\* C8 witness: the second post's publish call is pending, the first post's
\* status update is written.
C8_Witness ==
    \E i \in Slots :
        /\ inv[i].pc = "publish"
        /\ inv[i].idx = 2
        /\ inv[i].sel[1].id \in inv[i].recorded
        /\ inv[i].issued \ inv[i].recorded = {inv[i].sel[2].id}

\* The cap of each selection query, as the routes and the script write it.
C9_Cap(kind) ==
    CASE kind = "cron10" -> CronTake10
      [] kind = "cron1"  -> CronTake1
      [] kind = "main"   -> MainTake
      [] OTHER           -> 0

\* C9: an invocation selects and attempts at most the cap of its query,
\* however many PENDING posts are due.
C9_Capped ==
    \A i \in Slots :
        /\ Len(inv[i].sel) <= C9_Cap(inv[i].kind)
        /\ inv[i].issued \subseteq SelIds(inv[i].sel)
        /\ Cardinality(inv[i].issued) <= C9_Cap(inv[i].kind)

\* C9 witness: a take-1 invocation is publishing its one post while a second
\* PENDING post is due as well.
C9_Witness ==
    \E i \in Slots :
        /\ inv[i].kind = "cron1"
        /\ inv[i].pc = "publish"
        /\ Cardinality(Matching("cron1", now)) >= 2

\* What C2 says of a completed invocation, for the selected posts that still
\* exist: each has a result entry and has left PENDING, PUBLISHED with the
\* returned id and success, or FAILED with the raised message and no success.
C2_Outcome(i) ==
    \A k \in DOMAIN inv'[i].sel :
        LET p == inv'[i].sel[k].id
            res == inv'[i].results
        IN  p \in DOMAIN posts' =>
              /\ k \in DOMAIN res
              /\ res[k].id = p
              /\ \/ /\ posts'[p].status = "PUBLISHED"
                    /\ res[k].success
                    /\ posts'[p].threadsId = res[k].threadsId
                 \/ /\ posts'[p].status = "FAILED"
                    /\ ~res[k].success
                    /\ posts'[p].errorLog = res[k].error

\* C2: when an invocation completes, every post it selected has left PENDING,
\* PUBLISHED with the id the publish call returned or FAILED with the message
\* of the error raised, and the result summary has one entry per selected post
\* whose success flag says which.
C2_AllRecorded == [][\A i \in Slots : Completes(i) => C2_Outcome(i)]_vars

\* C3: a failure while publishing one selected post does not stop the batch:
\* when the invocation has completed, every post selected after a post whose
\* publishing raised has been attempted.
C3_BatchContinues ==
    \A i \in Slots :
        inv[i].pc = "done" =>
            \A j, k \in DOMAIN inv[i].sel :
                (j < k /\ inv[i].sel[j].id \in inv[i].raised) =>
                    inv[i].sel[k].id \in inv[i].issued \cup inv[i].raised

\* C4: a post's status changes only from PENDING, to PUBLISHED or to FAILED;
\* so it changes at most once and a PUBLISHED post keeps its status.
C4_StatusOnce ==
    [][\A p \in DOMAIN posts \cap DOMAIN posts' :
          posts'[p].status # posts[p].status =>
              posts[p].status = "PENDING" /\ posts'[p].status \in {"PUBLISHED", "FAILED"}]_vars

\* C5: a post has a threadsId only when it is PUBLISHED and an errorLog only
\* when it is FAILED.
C5_FieldsMatchStatus ==
    \A p \in DOMAIN posts :
        /\ posts[p].threadsId # NoId => posts[p].status = "PUBLISHED"
        /\ posts[p].errorLog # NoLog => posts[p].status = "FAILED"

\* C6: however the cron triggers overlap, no post is published to the
\* platform more than once.
C6_PublishedOnce == \A p \in Ids : Published(p) <= 1

\* C7 as stated: a post whose invocation died between the publish call and
\* the status update stays PENDING in every later state.
C7_StaysPending ==
    [][\A p \in orphaned \cap DOMAIN posts \cap DOMAIN posts' :
          posts[p].status = "PENDING" => posts'[p].status = "PENDING"]_vars

\* C7, amended: the crash leaves the published post PENDING, and nothing
\* reconciles it with the platform; it stays PENDING until a later invocation
\* selects it again, whose status update is the only step that takes it out
\* of PENDING, and when that update writes PUBLISHED the post has been
\* published to the platform at least twice.
C7_PendingUntilRepublished ==
    [][\A p \in Ids :
          /\ (p \in orphaned' \ orphaned /\ p \in DOMAIN posts) =>
                 p \in DOMAIN posts' /\ posts'[p].status = "PENDING"
          /\ (/\ p \in orphaned
              /\ p \in DOMAIN posts \cap DOMAIN posts'
              /\ posts[p].status = "PENDING"
              /\ posts'[p].status # "PENDING") =>
                 /\ \E i \in Slots : inv[i].pc \in {"update", "catch"} /\ Cur(i) = p
                 /\ posts'[p].status = "PUBLISHED" => Published(p) >= 2]_vars

\* C7 witness: a post orphaned by a crash was selected again, published a
\* second time and recorded.
C7_Witness ==
    \E p \in orphaned \cap DOMAIN posts :
        posts[p].status = "PUBLISHED" /\ Published(p) = 2

\* C10: under repeated invocations every due PENDING post is eventually
\* attempted and leaves PENDING (or is deleted), also when posts scheduled
\* before it fail.
C10_EventuallyAttempted ==
    \A p \in Ids :
        (p \in DOMAIN posts /\ posts[p].status = "PENDING" /\ posts[p].scheduledAt <= now)
            ~> (p \notin DOMAIN posts \/ posts[p].status # "PENDING")

\* C10 witness: a due post was published although a post scheduled before it
\* had failed.
C10_Witness ==
    \E p, q \in DOMAIN posts :
        /\ posts[q].scheduledAt < posts[p].scheduledAt
        /\ posts[p].scheduledAt <= now
        /\ posts[q].status = "FAILED"
        /\ posts[p].status = "PUBLISHED"

\* C11: the dispatcher never publishes a post whose scheduledAt is later than
\* the time of the invocation that selected it; the clock only advances, so
\* a post an invocation has published is not scheduled later than the clock.
C11_OnlyDuePublished ==
    \A i \in Slots :
        inv[i].pc = "update" => inv[i].sel[inv[i].idx].scheduledAt <= now

\* C12: every post an invocation selects is PENDING when it is selected, and
\* no external call is issued for a post that is FAILED or PUBLISHED: a FAILED
\* post is not attempted again by a later invocation.
C12_OnlyPending ==
    /\ [][\A i \in Slots : Triggered(i) =>
             \A k \in DOMAIN inv'[i].sel :
                 /\ inv'[i].sel[k].id \in DOMAIN posts
                 /\ posts[inv'[i].sel[k].id].status = "PENDING"]_vars
    /\ [][\A i \in Slots : \A p \in inv'[i].issued \ inv[i].issued :
             p \in DOMAIN posts => posts[p].status = "PENDING"]_vars

\* C12 witness: an invocation is publishing a post while another post that
\* matches its cutoff and is scheduled no later is FAILED and was not selected.
C12_Witness ==
    \E i \in Slots : \E p \in DOMAIN posts :
        /\ inv[i].pc = "publish"
        /\ p \notin SelIds(inv[i].sel)
        /\ posts[p].status = "FAILED"
        /\ posts[p].scheduledAt <= inv[i].sel[1].scheduledAt

\* The requests of a run that create containers.
ContainerCalls == SelectSeq(lib.calls, LAMBDA q : q.endpoint = "threads")

\* Request q is the carousel-item request for url.
IsItemCall(q, url) ==
    /\ q.endpoint = "threads"
    /\ q.media_type = "IMAGE"
    /\ q.is_carousel_item
    /\ q.image_url = url
    /\ q.children = NoParam

\* C13: a post with n >= 2 images sends n carousel-item requests, one per
\* image in input order, then one CAROUSEL request whose children are the
\* item ids comma-joined in that order, and only then the publish request.
C13_CarouselSequence ==
    LET n == Len(lib.images)
        calls == lib.calls
    IN  n >= 2 =>
          /\ Len(calls) <= n + 2
          /\ \A k \in DOMAIN calls :
                /\ k <= n => IsItemCall(calls[k], lib.images[k])
                /\ k = n + 1 =>
                      /\ calls[k].endpoint = "threads"
                      /\ calls[k].media_type = "CAROUSEL"
                      /\ ~calls[k].is_carousel_item
                      /\ Len(calls[k].children) = 2 * n - 1
                      /\ \A j \in 1..n : calls[k].children[2 * j - 1] = ResponseId(j)
                      /\ \A j \in 1..(n - 1) : calls[k].children[2 * j] = ","
                      /\ \A j \in 1..n : calls[j].ok
                /\ k = n + 2 => calls[k].endpoint = "threads_publish" /\ calls[n + 1].ok
          /\ lib.pc = "returned" => Len(calls) = n + 2

\* C13 witness: a post with three images, the first two different, is published.
C13_Witness ==
    /\ lib.pc = "returned"
    /\ Len(lib.images) = 3
    /\ lib.images[1] # lib.images[2]

\* C14: the container shape follows from the number of images alone: none,
\* one TEXT request; one, one IMAGE request with that url; two or more, the
\* item requests and the CAROUSEL request; and no other container request.
C14_ShapeByImageCount ==
    LET n == Len(lib.images)
        cc == ContainerCalls
        created == lib.pc \in {"wait", "publish", "returned"}
    IN  /\ n = 0 =>
              /\ Len(cc) <= 1
              /\ created => Len(cc) = 1
              /\ \A k \in DOMAIN cc :
                    cc[k].media_type = "TEXT" /\ cc[k].image_url = NoParam /\ ~cc[k].is_carousel_item
        /\ n = 1 =>
              /\ Len(cc) <= 1
              /\ created => Len(cc) = 1
              /\ \A k \in DOMAIN cc :
                    /\ cc[k].media_type = "IMAGE"
                    /\ cc[k].image_url = lib.images[1]
                    /\ ~cc[k].is_carousel_item
        /\ n >= 2 =>
              /\ Len(cc) <= n + 1
              /\ created => Len(cc) = n + 1
              /\ \A k \in DOMAIN cc :
                    IF k <= n THEN IsItemCall(cc[k], lib.images[k])
                              ELSE cc[k].media_type = "CAROUSEL"

\* C14 witness: a post with one image is published.
C14_Witness ==
    /\ lib.pc = "returned"
    /\ Len(lib.images) = 1

\* C15: the publish request is sent only after the container was created and
\* the processing wait has elapsed, names that container as creation_id, and
\* publishPost returns the id the publish request returned; no publish
\* request follows a failed container creation.
C15_PublishAfterContainer ==
    /\ [](\A k \in DOMAIN lib.calls :
             lib.calls[k].endpoint = "threads_publish" =>
                 /\ k = Len(lib.calls)
                 /\ k > 1
                 /\ \A j \in 1..(k - 1) : lib.calls[j].ok /\ lib.calls[j].endpoint = "threads"
                 /\ ~lib.calls[k - 1].is_carousel_item
                 /\ lib.calls[k].creation_id = ResponseId(k - 1))
    /\ [](lib.pc = "returned" =>
             /\ lib.calls # <<>>
             /\ lib.calls[Len(lib.calls)].endpoint = "threads_publish"
             /\ lib.calls[Len(lib.calls)].ok
             /\ lib.result = ResponseId(Len(lib.calls)))
    /\ [][/\ (Len(lib'.calls) > Len(lib.calls)
                 /\ lib'.calls[Len(lib'.calls)].endpoint = "threads_publish") => lib.pc = "publish"
          /\ (lib'.pc = "publish" /\ lib.pc # "publish") => lib.pc = "wait"]_vars

\* C15 witness: a carousel post is published and its id returned.
C15_Witness ==
    /\ lib.pc = "returned"
    /\ Len(lib.images) = 2
    /\ lib.result # NoId

\* C16: the client never retries: a run sends no more requests than its
\* protocol has, a failed request is the last one of its run, and its error
\* is thrown to the caller.
C16_NoRetry ==
    /\ Len(lib.calls) <= (IF Len(lib.images) >= 2 THEN Len(lib.images) + 2 ELSE 2)
    /\ \A k \in DOMAIN lib.calls :
          ~lib.calls[k].ok => k = Len(lib.calls) /\ lib.pc = "thrown" /\ lib.err # NoLog

\* C16 witness: the second of three item requests failed and the run ended there.
C16_Witness ==
    /\ lib.pc = "thrown"
    /\ Len(lib.images) = 3
    /\ Len(lib.calls) = 2
    /\ ~lib.calls[2].ok

\* C17: a request answered with a non-success status throws, and the error's
\* message is the prefix followed by the platform's message when the answer
\* has one, by the fallback "Unknown error" when it has none.
C17_ErrorMessage ==
    (lib.response # <<>> /\ ~lib.response.ok) =>
        /\ lib.pc = "thrown"
        /\ lib.err = <<"Threads API Error: ",
                       IF lib.response.message # NoMsg THEN lib.response.message
                                                       ELSE "Unknown error">>

\* C18: when an operation reads the access token, initializeTokensInDB has
\* run before in that operation, so the Settings row exists at the read.
C18_InitializedBeforeRead ==
    [][\A i \in Slots :
          (inv[i].pc = "container" /\ inv'[i] # inv[i]) => settings # NoSettings]_vars

\* The errors of the credential reads.
CredentialErrors ==
    {<<"No Threads settings found in DB">>,
     <<"THREADS_ACCESS_TOKEN is not configured">>,
     <<"THREADS_USER_ID is not configured">>}

\* C19: an invocation that finds no usable access token or user id sends no
\* container request, changes no post and ends there.
C19_NoCredentialsNoChange ==
    /\ [](\A i \in Slots :
             (inv[i].pc = "catch" /\ inv[i].err \in CredentialErrors) => Cur(i) \notin inv[i].issued)
    /\ [][\A i \in Slots :
             (inv[i].pc = "catch" /\ inv[i].err \in CredentialErrors /\ inv'[i] # inv[i]) =>
                 posts' = posts /\ inv'[i].pc = "done"]_vars

\* C20: the job calls the refresh endpoint exactly when the stored
\* tokenExpiry is not later than now + 7 days; a successful refresh stores the
\* returned token and now + expires_in; a job that does not refresh, or whose
\* refresh fails, leaves the row as it is.
C20_RefreshWhenStale ==
    /\ [][(job.pc = "check" /\ job' # job) =>
             /\ job'.pc = "refresh" <=>
                    (settings # NoSettings /\ settings.tokenExpiry <= now + Days(StaleDays))
             /\ settings' = settings]_vars
    /\ [][job'.calls > job.calls =>
             /\ job.pc = "refresh"
             /\ settings # NoSettings
             /\ settings.tokenExpiry <= now + Days(StaleDays)
             /\ settings' = settings]_vars
    /\ [][(job.pc = "response" /\ job' # job) =>
             \/ /\ job'.refreshed
                /\ settings'.accessToken = "new-token"
                /\ job'.expiresIn \in Lifetimes
                /\ settings'.tokenExpiry = now + job'.expiresIn
                /\ settings'.userId = settings.userId
             \/ /\ ~job'.refreshed
                /\ job'.err # NoLog
                /\ settings' = settings]_vars
    /\ [](job.pc = "done" => (job.refreshed => job.calls = 1) /\ job.calls <= 1)

\* C20 witness: a job has refreshed a stale token: the row holds the new
\* token and an expiry sixty days from now.
C20_Witness ==
    /\ job.pc = "done"
    /\ job.refreshed
    /\ settings.accessToken = "new-token"
    /\ settings.tokenExpiry = now + Days(SeedDays)

----------------------------------------------------------------------------
\* The last call went through POST /api/posts, directly or from the dashboard,
\* and has answered.
Ingested == call.op \in {"POST /api/posts", "handleFileSelect"} /\ call.done

InvalidIn(batch) == {k \in DOMAIN batch : ~ValidatePost(batch[k]).valid}

\* C21: batch ingestion is all-or-nothing with respect to validation: when a
\* post of the batch fails validatePost no row is created and the violations
\* are reported, otherwise every post of the batch is created as PENDING.
C21_AllOrNothing ==
    Ingested =>
        LET batch == call.arg.posts
            answer == call.out.answer
        IN  /\ InvalidIn(batch) # {} =>
                  /\ answer.created = <<>>
                  /\ \/ {d.index + 1 : d \in Range(answer.details)} = InvalidIn(batch)
                     \/ call.out.toast[1] = "error"
            /\ (batch # <<>> /\ InvalidIn(batch) = {}) =>
                  /\ Len(answer.created) = Len(batch)
                  /\ \A k \in DOMAIN batch :
                        /\ answer.created[k].content = batch[k].content
                        /\ answer.created[k].status = "PENDING"

\* Text s begins with the characters of p.
Begins(s, p) == Len(s) >= Len(p) /\ \A j \in DOMAIN p : s[j] = p[j]

\* C22: validatePost applies its rules independently and reports every
\* violation: one entry for a missing or blank content, one entry with the
\* actual length for a content above 500 characters, one entry per image that
\* starts with none of http://, https:// and /, in the order of the images;
\* valid holds exactly when there is no entry; 500 characters without images
\* are valid, 501 characters give exactly one entry naming 501.
C22_AllViolations ==
    (call.op = "validatePost" /\ call.done) =>
        LET post == call.arg
            errors == call.out.errors
            blank == \A k \in DOMAIN post.content : post.content[k] \in Whitespace
            long == Len(post.content) > ContentLimit
            bad == {k \in DOMAIN post.images :
                       \A p \in {HttpPrefix, HttpsPrefix, RootPrefix} :
                          ~Begins(post.images[k], p)}
            required == {k \in DOMAIN errors : errors[k] = ContentRequired}
            lengths == {k \in DOMAIN errors : errors[k][1] = ContentTooLong(0)[1]}
            paths == SelectSeq(errors, LAMBDA e : e[1] = InvalidImagePath(<<>>)[1])
        IN  /\ Cardinality(required) = IF blank THEN 1 ELSE 0
            /\ Cardinality(lengths) = IF long THEN 1 ELSE 0
            /\ \A k \in lengths : errors[k][2] = Len(post.content)
            /\ Len(paths) = Cardinality(bad)
            /\ \A k \in bad : paths[Cardinality({j \in bad : j <= k})][2] = post.images[k]
            /\ Len(errors) = Cardinality(required) + Cardinality(lengths) + Len(paths)
            /\ call.out.valid <=> errors = <<>>
            /\ (Len(post.content) = ContentLimit /\ ~blank /\ post.images = <<>>) => call.out.valid
            /\ Len(post.content) = ContentLimit + 1 =>
                  Cardinality({k \in lengths : errors[k][2] = ContentLimit + 1}) = 1

\* A blank content of 501 characters with a valid and an invalid image: three
\* entries.
C22_Witness ==
    /\ call.op = "validatePost"
    /\ call.done
    /\ Len(call.arg.content) = ContentLimit + 1
    /\ Trim(call.arg.content) = <<>>
    /\ Len(call.arg.images) = 2
    /\ ValidPath(call.arg.images[1])
    /\ ~ValidPath(call.arg.images[2])
    /\ Len(call.out.errors) = 3
    /\ ~call.out.valid

\* C27: the posts of one batch that carry no scheduledAt are given strictly
\* increasing scheduledAt in the order of the batch, so that the dispatcher's
\* ascending order is the order of the batch.
C27_IncreasingDefaults ==
    (Ingested /\ call.out.answer.status = 200) =>
        LET sent == call.out.sent
            created == call.out.answer.created
        IN  \A j, k \in DOMAIN sent :
               (j < k /\ sent[j].scheduledAt = NoDate /\ sent[k].scheduledAt = NoDate) =>
                   Ms(created[j].scheduledAt) < Ms(created[k].scheduledAt)

\* The KST calendar day (days since the epoch) of an instant.
KstDay(t) == (t + KstOffsetHours * MsPerHour) \div MsPerDay

\* The instant of a KST wall-clock time on a KST calendar day.
KstInstant(day, hour, minute) ==
    day * MsPerDay + hour * MsPerHour + minute * MsPerMinute - KstOffsetHours * MsPerHour

\* C28: under the KST-slot policy the post at index i that carries no
\* scheduledAt gets slot i mod 10 of the ten daily slots on the day floor(i/10)
\* counted from the KST calendar day after the creation; the times increase
\* strictly with i and every one of them is later than the creation.
C28_KstSlots ==
    (Ingested /\ call.arg.route = "kst" /\ call.out.answer.status = 200) =>
        LET sent == call.out.sent
            created == call.out.answer.created
            creation == call.arg.clock[1]
        IN  \A k \in DOMAIN sent :
               sent[k].scheduledAt = NoDate =>
                   LET i == k - 1
                       slot == KST_SLOTS[(i % 10) + 1]
                       at == Ms(created[k].scheduledAt)
                   IN  /\ at = KstInstant(KstDay(creation) + 1 + (i \div 10),
                                          slot.hour, slot.minute)
                       /\ at > creation
                       /\ \A j \in 1..(k - 1) :
                             sent[j].scheduledAt = NoDate => Ms(created[j].scheduledAt) < at

----------------------------------------------------------------------------
\* The last call was a parser's and has returned or thrown.
Parsed == call.op \in {"parseMarkdownFile", "parseExcelFile"} /\ call.done

\* C23: every post that parseMarkdownFile or parseExcelFile emits has a
\* content that is not empty after trimming; empty segments and rows are
\* dropped in every branch of the parsers.
C23_NonEmptyContent ==
    Parsed => \A k \in DOMAIN call.out.posts : Trim(call.out.posts[k].content) # <<>>

\* A text without a heading marker: a frontmatter block with scheduledAt and
\* images at the top, then the body.
FrontmatterDocuments == {JoinLines(Frontmatter(n) \o <<BodyLine>>) : n \in 0..MaxUrls}

\* C24: for a text without a heading marker that is a frontmatter block at the
\* top followed by the body, parseMarkdownFile takes the single-document
\* fallback and gives exactly one post: the body as content, the listed URLs
\* in order as images, the parsed schedule as scheduledAt.
C24_SingleDocument ==
    (call.op = "parseMarkdownFile" /\ call.done /\ call.arg \in FrontmatterDocuments) =>
        /\ call.out.fallback
        /\ Len(call.out.posts) = 1
        /\ call.out.posts[1].content = BodyLine
        /\ \E n \in 0..MaxUrls :
              /\ call.arg = JoinLines(Frontmatter(n) \o <<BodyLine>>)
              /\ call.out.posts[1].images = [k \in 1..n |-> <<"/", Digits[k + 1]>>]
        /\ call.out.posts[1].scheduledAt = <<"local", 2026, 2, 1, 9, 0>>

\* C25: parseMarkdownFile and parseExcelFile never throw, whatever the text or
\* the sheet holds, cells that are absent or hold no text included.
C25_NeverRaises == Parsed => ~call.out.raised

----------------------------------------------------------------------------
CronEndpoints == {"GET /api/cron/publish", "GET /api/cron/refresh-token"}

\* The request carries the deployment's cron secret, in the Authorization
\* header or in the `secret` query parameter.
Carries(req) ==
    /\ env.cronSecret # Unset
    /\ \/ req.authorization \in {<<Bearer, env.cronSecret>>, <<env.cronSecret>>}
       \/ req.secret = <<env.cronSecret>>

\* C26: a request to a cron endpoint that does not carry the matching secret
\* is answered 401 and neither reads nor writes posts or settings nor calls
\* the platform.
C26_SecretRequired ==
    [][(call' # call /\ call'.op \in CronEndpoints /\ ~Carries(call'.arg)) =>
          /\ call'.out.status = 401
          /\ UNCHANGED <<posts, settings, platform, inv, job>>]_vars

----------------------------------------------------------------------------
\* C29: the script's publishPost and the library's are equivalent: called with
\* the same image list and answered alike by the platform, they send the same
\* requests in the same order and return the same id.
C29_SameCalls ==
    (lib.pc = "returned" /\ script.pc = "returned" /\ lib.images = script.images) =>
        /\ lib.calls = script.calls
        /\ lib.result = script.result

----------------------------------------------------------------------------
\* C30: a delete (of all PENDING posts, or of one post by id) while an
\* invocation is publishing neither aborts the invocation nor loses an
\* outcome: no invocation ends in the outer catch, no status update meets a
\* deleted row, and a completed invocation has attempted every selected post
\* that still exists.
C30_DeleteSafe ==
    \A i \in Slots :
        /\ ~inv[i].aborted
        /\ inv[i].err # NotFoundError
        /\ inv[i].pc = "done" =>
              \A k \in DOMAIN inv[i].sel :
                 inv[i].sel[k].id \in DOMAIN posts =>
                     inv[i].sel[k].id \in inv[i].issued \cup inv[i].raised

====
